---- MODULE Spec2Model ----
(***************************************************************************)
(* x402 facilitator for the eip155 "exact" scheme (V1 and V2): pre-flight  *)
(* validation, verification by simulation and settlement, against a small  *)
(* model of the chain (ERC-3009 token, Permit2, x402 Permit2 proxy).       *)
(***************************************************************************)
EXTENDS Integers, Sequences, FiniteSets, TLC

(***************************************************************************)
(* The fields of the model's records and what each belongs to.  Records    *)
(* list their fields in the order of this table, which is the order TLC    *)
(* keeps them in: a record built in that order is already in normal form.  *)
(***************************************************************************)
RecordFields ==
    [accepted |-> "v2 PaymentPayload",
     address |-> "asset; SignedMessage",
     allowFailure |-> "Multicall3 Call3",
     allow_list |-> "ComplianceGate",
     amount |-> "Permit2Details; Permit2TokenPermissions; Permit2 allowance",
     args |-> "contract call",
     asset |-> "PaymentRequirements",
     at |-> "reserving task",
     audit_log_path |-> "ComplianceGate",
     authorization |-> "ExactEvmPayload",
     balance |-> "chain state",
     c |-> "chain state after an operation",
     call |-> "Multicall3 Call3",
     calldata |-> "MetaTransaction",
     calls |-> "aggregate3; RPC operation",
     chain |-> "asset (CAIP-2 chain id)",
     chain_id |-> "parsed ChainId",
     confirmations |-> "MetaTransaction",
     contract |-> "PaymentContext",
     ctx |-> "pre-flight result",
     deadline |-> "Permit2Authorization",
     deny_list |-> "ComplianceGate",
     deployed |-> "chain state",
     details |-> "Permit2PermitSingle",
     digest |-> "ECDSA signature",
     domain |-> "PaymentContext",
     enabled |-> "ComplianceGate",
     erc20Allow |-> "chain state",
     err |-> "result",
     error |-> "CompliancePartyCheckFailure; query result",
     event_type |-> "ComplianceAuditEvent",
     events |-> "validate_for_request outcome",
     expiration |-> "Permit2Details",
     extra |-> "PaymentRequirements; Permit2Witness",
     factory |-> "EIP-6492 signature",
     factoryCalldata |-> "Sig6492",
     factory_calldata |-> "EIP-6492 signature",
     fail_closed |-> "ChainalysisConfig",
     fmt |-> "signature bytes",
     fn |-> "contract call",
     from |-> "ExactEvmPayloadAuthorization; Permit2Authorization; transaction",
     hash |-> "SignedMessage",
     highest |-> "NonceState",
     id |-> "chain state",
     inner |-> "EIP-6492 signature",
     innerSig |-> "Sig6492",
     input |-> "parsed ChainId",
     key |-> "ECDSA signature",
     kind |-> "request; RPC operation",
     len |-> "signature bytes",
     max_amount_required |-> "PaymentRequirements",
     meta |-> "settlement result",
     msg |-> "result",
     n |-> "reserving task; reserve result",
     name |-> "PaymentRequirementsExtra",
     namespace |-> "ChainId; ChainIdPattern",
     network |-> "PaymentPayload; PaymentRequirements",
     nonce |-> "authorization; Permit2Details; Permit2Authorization",
     of |-> "signature bytes",
     ok |-> "call outcome",
     original |-> "EIP-6492 signature",
     outcome |-> "ComplianceAuditEvent",
     owner |-> "Permit2Payload",
     p2Allow |-> "chain state",
     parties |-> "ComplianceAuditEvent",
     party |-> "CompliancePartyCheckFailure",
     pay_to |-> "PaymentRequirements; payment",
     payee |-> "ComplianceAuditEvent; screening request",
     payer |-> "result",
     payload |-> "PaymentPayload",
     payment |-> "PaymentContext",
     pc |-> "settle task",
     permit |-> "X402ExactPermit2Proxy.settle",
     permit2 |-> "ExactEvmPayload",
     permit2_authorization |-> "ExactEvmPayload",
     permitSingle |-> "IPermit2.permit",
     permit_single |-> "Permit2Payload",
     permitted |-> "Permit2Authorization",
     provider |-> "ComplianceGate; ComplianceAuditEvent; CompliancePartyRecord",
     queried |-> "party check outcome",
     queries |-> "validate_for_request outcome",
     r1 |-> "aggregate3 outcome",
     r2 |-> "aggregate3 outcome",
     reads |-> "pre-flight result",
     reason |-> "ComplianceAuditEvent; CompliancePartyRecord",
     receipt |-> "settle task",
     reference |-> "ChainId; ChainIdPattern",
     references |-> "ChainIdPattern",
     request_type |-> "ComplianceAuditEvent; screening request",
     requirements |-> "request",
     reserved |-> "NonceState",
     response |-> "remote screening query",
     result |-> "validate_for_request outcome",
     ret |-> "call outcome",
     role |-> "CompliancePartyRecord",
     rpc |-> "verification result",
     sent |-> "settle_payment_permit2 outcome",
     sigDeadline |-> "IPermit2.PermitSingle",
     sig_deadline |-> "Permit2PermitSingle",
     signature |-> "ExactEvmPayload; Permit2Payload; payment",
     signer |-> "Validator6492 call",
     signerNonce |-> "chain state",
     spender |-> "Permit2PermitSingle; Permit2Authorization",
     state |-> "reserve result",
     status |-> "receipt; response",
     tag |-> "PaymentContext; StructuredSignature",
     target |-> "contract call",
     task |-> "submitted transaction",
     to |-> "ExactEvmPayloadAuthorization; Permit2Witness; MetaTransaction",
     token |-> "Permit2Details; Permit2TokenPermissions",
     transaction |-> "result",
     transaction_hash |-> "receipt; transaction",
     transfer_amount |-> "Permit2Payment",
     usedAuth |-> "chain state",
     usedP2 |-> "chain state",
     validAfter |-> "contract call",
     validBefore |-> "contract call",
     valid_after |-> "authorization; Permit2Witness",
     valid_before |-> "ExactEvmPayloadAuthorization",
     value |-> "ExactEvmPayloadAuthorization",
     verdict |-> "ChainalysisResult",
     version |-> "PaymentRequirementsExtra; request",
     witness |-> "Permit2Authorization"]

(***************************************************************************)
(* Bounds of the model.                                                    *)
(***************************************************************************)
\* the clock runs from 1 to MaxNow
MaxNow == 2
\* requests served one after the other in one behaviour
MaxRequests == 2
\* largest timestamp fed to the time predicates of SpecTime
MaxTime == 9
\* amounts of the modelled payloads range over 1..MaxAmount
MaxAmount == 3

(***************************************************************************)
(* Option<T> is a sequence of length at most one.                          *)
(***************************************************************************)
None == <<>>
Some(x) == <<x>>
IsSome(o) == Len(o) = 1
Unwrap(o) == o[1]

(***************************************************************************)
(* Addresses and well-known contracts.                                     *)
(***************************************************************************)
PERMIT2_ADDRESS == "0x000000000022D473030F116dDEE9F6B43aC78BA3"
X402_EXACT_PERMIT2_PROXY_ADDRESS == "0xB6FD384A0626BfeF85f3dBaf5223Dd964684B09E"
\* X402_EXACT_PERMIT2_PROXY_ADDRESS is not overridden in the modelled deployment
x402_exact_permit2_proxy_address == X402_EXACT_PERMIT2_PROXY_ADDRESS

Payer == "payer"
Mallory == "mallory"
PayTos == {"R1", "R2"}
Token == "BBT"
OtherToken == "OTH"
Tokens == {Token, OtherToken}
\* the facilitator's signers, in registration order
Signers == <<"signer1">>
signer_addresses == {Signers[i] : i \in 1..Len(Signers)}

\* Etherlink mainnet, the chain of the modelled token, and another chain a
\* facilitator may be connected to
ProviderChain == "eip155:42793"
OtherChain == "eip155:128123"

(***************************************************************************)
(* Time predicates.  Each returns "Ok" or the name of the error variant.   *)
(***************************************************************************)
\* assert_time with the expiry bound made inclusive
assert_time_inclusive(now, valid_after, valid_before) ==
    IF valid_before <= now + 6 THEN "Expired"
    ELSE IF valid_after > now THEN "Early"
    ELSE "Ok"

assert_time(now, valid_after, valid_before) ==
    IF valid_before < now + 6 THEN "Expired"
    ELSE IF valid_after > now THEN "Early"
    ELSE "Ok"

\* assert_permit2_time without the grace on the allowance expiration
assert_permit2_time_no_grace(now, sig_deadline, expiration) ==
    IF sig_deadline < now + 6 THEN "Expired"
    ELSE IF expiration < now THEN "Expired"
    ELSE "Ok"

assert_permit2_time(now, sig_deadline, expiration) ==
    IF sig_deadline < now + 6 THEN "Expired"
    ELSE IF expiration < now + 6 THEN "Expired"
    ELSE "Ok"

assert_permit2_witness_time(now, deadline, valid_after) ==
    IF deadline < now + 6 THEN "Expired"
    ELSE IF valid_after > now THEN "Early"
    ELSE "Ok"

\* assert_enough_value accepting any amount that covers the requirement
assert_enough_value_at_least(sent, max_amount_required) ==
    IF sent < max_amount_required THEN "InvalidPaymentAmount" ELSE "Ok"

\* assert_enough_value accepting any amount up to the requirement
assert_enough_value_at_most(sent, max_amount_required) ==
    IF sent > max_amount_required THEN "InvalidPaymentAmount" ELSE "Ok"

assert_enough_value(sent, max_amount_required) ==
    IF sent # max_amount_required THEN "InvalidPaymentAmount" ELSE "Ok"

\* a balance check that lets every balance pass
assert_enough_balance_always(balance, max_amount_required) == "Ok"

assert_enough_balance(balance_of_sender, max_amount_required) ==
    IF balance_of_sender < max_amount_required THEN "InsufficientFunds" ELSE "Ok"

(***************************************************************************)
(* EIP-712 domains and signing hashes.  A domain is the tuple              *)
(* <<name, version, chain id, verifying contract>> ("" = field absent); a  *)
(* signing hash is the tuple of the domain and the struct's fields, so two *)
(* hashes are equal exactly when every signed field is.                    *)
(***************************************************************************)
TokenNameOnChain == "BBT"
TokenVersionOnChain == "1"

\* requirements.extra overrides name and version, else name() and version() are read
assert_domain(chain, asset_address, extra) ==
    IF IsSome(extra)
    THEN <<Unwrap(extra).name, Unwrap(extra).version, chain, asset_address>>
    ELSE <<TokenNameOnChain, TokenVersionOnChain, chain, asset_address>>

assert_domain_reads(extra) ==
    IF IsSome(extra) THEN <<>> ELSE <<"name", "version">>

assert_permit2_witness_domain(chain) == <<"Permit2", "", chain, PERMIT2_ADDRESS>>

assert_permit2_domain(chain) == <<"Permit2", "1", chain, PERMIT2_ADDRESS>>

\* TransferWithAuthorization{from,to,value,validAfter,validBefore,nonce}
HashTransferWithAuthorization(domain, from, to, value, validAfter, validBefore, nonce) ==
    <<"TransferWithAuthorization", domain, from, to, "", value, validAfter, validBefore, nonce, "">>

\* PermitSingle{details{token,amount,expiration,nonce},spender,sigDeadline}
HashPermitSingle(domain, owner, spender, token, amount, expiration, sigDeadline, nonce) ==
    <<"PermitSingle", domain, owner, spender, token, amount, expiration, sigDeadline, nonce, "">>

\* PermitWitnessTransferFrom{permitted{token,amount},spender,nonce,deadline,witness{to,validAfter,extra}}
HashPermitWitnessTransferFrom(domain, from, spender, token, amount, validAfter, deadline, nonce, to) ==
    <<"PermitWitnessTransferFrom", domain, from, spender, token, amount, validAfter, deadline, nonce, to>>

\* a 65-byte ECDSA signature made with `key` over `digest`
Sign(key, digest) == [digest |-> digest,
                      fmt |-> "sig65",
                      key |-> key]

\* ecrecover: the signing key when the digest is the signed one, else some other address
recover_address_from_prehash(sig, prehash) ==
    IF sig.digest = prehash THEN sig.key ELSE "0xgarbage"

(***************************************************************************)
(* The chain: one ERC-3009 token per address of Tokens, the Permit2        *)
(* contract, the x402 Permit2 proxy, and a counterfactual smart wallet.    *)
(* The state is a record:                                                  *)
(*   balance[token][holder], erc20Allow[token][owner] (allowance granted   *)
(*   to Permit2), p2Allow[token][spender] (Permit2 allowance of the payer: *)
(*   amount, expiration, nonce), usedAuth (ERC-3009 nonces used),          *)
(*   usedP2 (SignatureTransfer nonces used), signerNonce[signer],          *)
(*   deployed (addresses with code), id (the chain's id).                  *)
(***************************************************************************)
Wallet == "wallet"
WalletFactory == "factory"
Owners == {Payer, Wallet}
Holders == Owners \cup PayTos
Spenders == signer_addresses \cup {Mallory}
VALIDATOR_ADDRESS == "0xdAcD51A54883eb67D95FAEb2BBfdC4a9a6BD2a3B"
MULTICALL3_ADDRESS == "0xcA11bde05977b3631167028862bE2a173976CA11"

Move(c, token, from, to, value) ==
    [c EXCEPT !.balance[token] =
        [h \in Holders |->
            IF h = from /\ h = to THEN @[h]
            ELSE IF h = from THEN @[h] - value
            ELSE IF h = to THEN @[h] + value
            ELSE @[h]]]

\* SignatureChecker of the token and of Permit2: ECDSA for an account without code,
\* EIP-1271 (the wallet accepts its owner's signature) for a deployed wallet
IsValidSignatureNow(c, signer, hash, sig) ==
    /\ sig.fmt = "sig65"
    /\ sig.digest = hash
    /\ IF signer \in c.deployed THEN signer = Wallet /\ sig.key = Payer
       ELSE sig.key = signer

Failed(c) == [c |-> c,
              ok |-> FALSE,
              ret |-> FALSE]
Done(c) == [c |-> c,
            ok |-> TRUE,
            ret |-> TRUE]

\* a token that does not record the authorizations it has executed
ExecTransferWithAuthorization_replayable(c, now, token, a, sigOk) ==
    IF /\ token \in Tokens
       /\ a.from \in Holders /\ a.to \in Holders
       /\ sigOk
       /\ now > a.validAfter
       /\ now < a.validBefore
       /\ c.balance[token][a.from] >= a.value
    THEN Done(Move(c, token, a.from, a.to, a.value))
    ELSE Failed(c)

\* IEIP3009.transferWithAuthorization, both overloads
ExecTransferWithAuthorization(c, now, token, a, sigOk) ==
    IF /\ token \in Tokens
       /\ a.from \in Holders /\ a.to \in Holders
       /\ sigOk
       /\ now > a.validAfter
       /\ now < a.validBefore
       /\ <<a.from, a.nonce>> \notin c.usedAuth
       /\ c.balance[token][a.from] >= a.value
    THEN Done([Move(c, token, a.from, a.to, a.value) EXCEPT
                 !.usedAuth = @ \cup {<<a.from, a.nonce>>}])
    ELSE Failed(c)

\* IPermit2.permit(owner, permitSingle, signature)
ExecPermit(c, now, a) ==
    LET d == a.permitSingle.details
        h == HashPermitSingle(assert_permit2_domain(c.id), a.owner,
                 a.permitSingle.spender, d.token, d.amount, d.expiration,
                 a.permitSingle.sigDeadline, d.nonce)
    IN  IF /\ d.token \in Tokens /\ a.permitSingle.spender \in Spenders
           /\ a.owner = Payer
           /\ now <= a.permitSingle.sigDeadline
           /\ IsValidSignatureNow(c, a.owner, h, a.signature)
           /\ d.nonce = c.p2Allow[d.token][a.permitSingle.spender].nonce
        THEN Done([c EXCEPT !.p2Allow[d.token][a.permitSingle.spender] =
                     [amount |-> d.amount, expiration |-> d.expiration,
                      nonce |-> d.nonce + 1]])
        ELSE Failed(c)

\* ERC-20 transferFrom called by Permit2 (spends the allowance granted to Permit2)
ExecErc20TransferFrom(c, sender, token, a) ==
    IF /\ sender = PERMIT2_ADDRESS
       /\ token \in Tokens /\ a.from \in Owners /\ a.to \in Holders
       /\ c.erc20Allow[token][a.from] >= a.amount
       /\ c.balance[token][a.from] >= a.amount
    THEN Done([Move(c, token, a.from, a.to, a.amount) EXCEPT
                 !.erc20Allow[token][a.from] = @ - a.amount])
    ELSE Failed(c)

\* IPermit2.transferFrom(from, to, amount, token), called by the spender
ExecPermit2TransferFrom(c, now, sender, a) ==
    LET Spent(r) ==
            IF r.ok
            THEN Done([r.c EXCEPT !.p2Allow[a.token][sender].amount = @ - a.amount])
            ELSE Failed(c)
    IN  IF /\ a.token \in Tokens /\ sender \in Spenders /\ a.from = Payer
           /\ c.p2Allow[a.token][sender].amount >= a.amount
           /\ now <= c.p2Allow[a.token][sender].expiration
        THEN Spent(ExecErc20TransferFrom(c, PERMIT2_ADDRESS, a.token,
                       [amount |-> a.amount,
                        from |-> a.from,
                        to |-> a.to]))
        ELSE Failed(c)

\* X402ExactPermit2Proxy.settle(permit, owner, witness, signature): the proxy calls
\* Permit2.permitWitnessTransferFrom with itself as spender and witness.to as recipient
ExecProxySettle(c, now, target, a) ==
    LET h == HashPermitWitnessTransferFrom(assert_permit2_witness_domain(c.id),
                 a.owner, target, a.permit.permitted.token, a.permit.permitted.amount,
                 a.witness.validAfter, a.permit.deadline, a.permit.nonce, a.witness.to)
        Used(r) ==
            IF r.ok
            THEN Done([r.c EXCEPT !.usedP2 = @ \cup {<<a.owner, a.permit.nonce>>}])
            ELSE Failed(c)
    IN  IF /\ target = X402_EXACT_PERMIT2_PROXY_ADDRESS
           /\ a.permit.permitted.token \in Tokens
           /\ a.owner \in Owners /\ a.witness.to \in Holders
           /\ now >= a.witness.validAfter
           /\ now <= a.permit.deadline
           /\ <<a.owner, a.permit.nonce>> \notin c.usedP2
           /\ IsValidSignatureNow(c, a.owner, h, a.signature)
        THEN Used(ExecErc20TransferFrom(c, PERMIT2_ADDRESS, a.permit.permitted.token,
                      [amount |-> a.permit.permitted.amount,
                       from |-> a.owner,
                       to |-> a.witness.to]))
        ELSE Failed(c)

\* the wallet factory deploys the counterfactual wallet (fails when already deployed)
ExecDeploy(c, target) ==
    IF target = WalletFactory /\ Wallet \notin c.deployed
    THEN Done([c EXCEPT !.deployed = @ \cup {Wallet}])
    ELSE Failed(c)

\* Validator6492.isValidSigWithSideEffects(signer, hash, signature): deploys the wallet
\* when the signature is an EIP-6492 wrapper, then asks the wallet
ExecIsValidSigWithSideEffects(c, a) ==
    LET inner == IF a.signature.fmt = "eip6492" THEN a.signature.inner ELSE a.signature
        Asked(c1) == [c |-> c1,
                      ok |-> TRUE,
                      ret |-> IsValidSignatureNow(c1, a.signer, a.hash, inner)]
    IN  Asked(IF /\ a.signature.fmt = "eip6492" /\ a.signer \notin c.deployed
                 /\ a.signature.factory_calldata = "deploy"
              THEN ExecDeploy(c, a.signature.factory).c ELSE c)

\* one call executed by `sender` at time `now`: [ok, c (the state after), ret]
Exec(c, now, sender, call) ==
    CASE call.fn = "transferWithAuthorization_1" ->
            \* (v, r, s) overload: ecrecover must give `from`
            ExecTransferWithAuthorization(c, now, call.target, call.args,
                /\ call.args.signature.fmt = "sig65"
                /\ call.args.from \notin c.deployed
                /\ recover_address_from_prehash(call.args.signature,
                       HashTransferWithAuthorization(
                           assert_domain(c.id, call.target, None),
                           call.args.from, call.args.to, call.args.value,
                           call.args.validAfter, call.args.validBefore,
                           call.args.nonce)) = call.args.from)
      [] call.fn = "transferWithAuthorization_0" ->
            \* bytes overload: SignatureChecker
            ExecTransferWithAuthorization(c, now, call.target, call.args,
                IsValidSignatureNow(c, call.args.from,
                    HashTransferWithAuthorization(
                        assert_domain(c.id, call.target, None),
                        call.args.from, call.args.to, call.args.value,
                        call.args.validAfter, call.args.validBefore, call.args.nonce),
                    call.args.signature))
      [] call.fn = "permit" ->
            IF call.target = PERMIT2_ADDRESS THEN ExecPermit(c, now, call.args) ELSE Failed(c)
      [] call.fn = "transferFrom" ->
            IF call.target = PERMIT2_ADDRESS
            THEN ExecPermit2TransferFrom(c, now, sender, call.args)
            ELSE ExecErc20TransferFrom(c, sender, call.target, call.args)
      [] call.fn = "settle" -> ExecProxySettle(c, now, call.target, call.args)
      [] call.fn = "deploy" -> ExecDeploy(c, call.target)
      [] call.fn = "isValidSigWithSideEffects" -> ExecIsValidSigWithSideEffects(c, call.args)
      [] OTHER -> Failed(c)

\* Multicall3.aggregate3 of two items, each [allowFailure, call]: the results of both
\* items and the state after; the whole call reverts when an item that may not fail does
ExecAggregate3(c, now, calls) ==
    LET Results(r1, c1, r2) ==
            LET ok == /\ (r1.ok \/ calls[1].allowFailure)
                      /\ (r2.ok \/ calls[2].allowFailure)
            IN  [c |-> IF ~ok THEN c ELSE IF r2.ok THEN r2.c ELSE c1,
                 ok |-> ok,
                 r1 |-> r1,
                 r2 |-> r2]
        Second(r1, c1) == Results(r1, c1, Exec(c1, now, MULTICALL3_ADDRESS, calls[2].call))
        First(r1) == Second(r1, IF r1.ok THEN r1.c ELSE c)
    IN  First(Exec(c, now, MULTICALL3_ADDRESS, calls[1].call))

(***************************************************************************)
(* Pre-flight validation.  The result is                                   *)
(*   [err, msg, ctx, reads]: err = "" and ctx = Some(PaymentContext) on    *)
(*   success, else the PaymentVerificationError variant and ctx = None;    *)
(*   reads is the sequence of RPC reads issued before returning.           *)
(***************************************************************************)
Err(e, msg, reads) == [ctx |-> None,
                       err |-> e,
                       msg |-> msg,
                       reads |-> reads]
Ok(context, reads) == [ctx |-> Some(context),
                       err |-> "",
                       msg |-> "",
                       reads |-> reads]

\* a lookup that resolves every name to the provider's chain
from_network_name_any(network_name) == Some(ProviderChain)

\* ChainId::from_network_name: "etherlink" is eip155:42793, any other name is unknown
from_network_name(network_name) ==
    IF network_name = "etherlink" THEN Some(ProviderChain) ELSE None
\* a spender check that lets every spender pass
spender_mismatch_never(spender, proxy_address) == FALSE

\* permit2_auth.spender != proxy_address
spender_mismatch(spender, proxy_address) == spender # proxy_address

\* a recipient comparison that never reports a mismatch
recipient_mismatch_never(to, pay_to) == FALSE

\* `authorization.to != requirements.pay_to` and `witness.to != requirements.pay_to`
recipient_mismatch(to, pay_to) == to # pay_to
\* the Permit2Witness branch of V1 without the read of the ERC-20 allowance
v1_permit2_witness_branch_without_allowance(c, now, chain, payload, requirements) ==
    LET permit2_auth == Unwrap(payload.payload.permit2_authorization)
        proxy_address == x402_exact_permit2_proxy_address
        amount_required == requirements.max_amount_required
    IN  IF permit2_auth.permitted.token # requirements.asset.address
        THEN Err("AssetMismatch", "", <<>>)
        ELSE IF spender_mismatch(permit2_auth.spender, proxy_address)
        THEN Err("InvalidFormat",
                 "permit2Authorization.spender must be the x402 Permit2 proxy", <<>>)
        ELSE IF recipient_mismatch(permit2_auth.witness.to, requirements.pay_to)
        THEN Err("RecipientMismatch", "", <<>>)
        ELSE IF permit2_auth.permitted.amount # amount_required
        THEN Err("InvalidPaymentAmount", "", <<>>)
        ELSE IF assert_permit2_witness_time(now, permit2_auth.deadline,
                    permit2_auth.witness.valid_after) # "Ok"
        THEN Err(assert_permit2_witness_time(now, permit2_auth.deadline,
                    permit2_auth.witness.valid_after), "", <<>>)
        ELSE IF assert_enough_balance(
                    c.balance[permit2_auth.permitted.token][permit2_auth.from],
                    amount_required) # "Ok"
        THEN Err("InsufficientFunds", "", <<"balanceOf">>)
        ELSE IF ~IsSome(payload.payload.signature)
        THEN Err("InvalidFormat", "Missing signature", <<"balanceOf">>)
        ELSE Ok([contract |-> proxy_address,
                 domain |-> assert_permit2_witness_domain(chain),
                 payment |-> [amount |-> permit2_auth.permitted.amount,
                              deadline |-> permit2_auth.deadline,
                              extra |-> permit2_auth.witness.extra,
                              from |-> permit2_auth.from,
                              nonce |-> permit2_auth.nonce,
                              pay_to |-> permit2_auth.witness.to,
                              signature |-> Unwrap(payload.payload.signature),
                              spender |-> permit2_auth.spender,
                              token |-> permit2_auth.permitted.token,
                              transfer_amount |-> amount_required,
                              valid_after |-> permit2_auth.witness.valid_after],
                 tag |-> "Permit2Witness"],
                <<"balanceOf">>)

\* V1, permit2_authorization branch
v1_permit2_witness_branch(c, now, chain, payload, requirements) ==
    LET permit2_auth == Unwrap(payload.payload.permit2_authorization)
        proxy_address == x402_exact_permit2_proxy_address
        amount_required == requirements.max_amount_required
    IN  IF permit2_auth.permitted.token # requirements.asset.address
        THEN Err("AssetMismatch", "", <<>>)
        ELSE IF spender_mismatch(permit2_auth.spender, proxy_address)
        THEN Err("InvalidFormat",
                 "permit2Authorization.spender must be the x402 Permit2 proxy", <<>>)
        ELSE IF recipient_mismatch(permit2_auth.witness.to, requirements.pay_to)
        THEN Err("RecipientMismatch", "", <<>>)
        ELSE IF permit2_auth.permitted.amount # amount_required
        THEN Err("InvalidPaymentAmount", "", <<>>)
        ELSE IF assert_permit2_witness_time(now, permit2_auth.deadline,
                    permit2_auth.witness.valid_after) # "Ok"
        THEN Err(assert_permit2_witness_time(now, permit2_auth.deadline,
                    permit2_auth.witness.valid_after), "", <<>>)
        ELSE IF assert_enough_balance(
                    c.balance[permit2_auth.permitted.token][permit2_auth.from],
                    amount_required) # "Ok"
        THEN Err("InsufficientFunds", "", <<"balanceOf">>)
        ELSE IF c.erc20Allow[permit2_auth.permitted.token][permit2_auth.from]
                    < amount_required
        THEN Err("TransactionSimulation", "Permit2 ERC20 allowance is insufficient",
                 <<"balanceOf", "allowance">>)
        ELSE IF ~IsSome(payload.payload.signature)
        THEN Err("InvalidFormat", "Missing signature", <<"balanceOf", "allowance">>)
        ELSE Ok([contract |-> proxy_address,
                 domain |-> assert_permit2_witness_domain(chain),
                 payment |-> [amount |-> permit2_auth.permitted.amount,
                              deadline |-> permit2_auth.deadline,
                              extra |-> permit2_auth.witness.extra,
                              from |-> permit2_auth.from,
                              nonce |-> permit2_auth.nonce,
                              pay_to |-> permit2_auth.witness.to,
                              signature |-> Unwrap(payload.payload.signature),
                              spender |-> permit2_auth.spender,
                              token |-> permit2_auth.permitted.token,
                              transfer_amount |-> amount_required,
                              valid_after |-> permit2_auth.witness.valid_after],
                 tag |-> "Permit2Witness"],
                <<"balanceOf", "allowance">>)

\* V1, permit2 branch
v1_permit2_branch(c, now, chain, payload, requirements, allowed_spenders) ==
    LET permit2 == Unwrap(payload.payload.permit2)
        permit_single == permit2.permit_single
        details == permit_single.details
        amount_required == requirements.max_amount_required
    IN  IF details.token # requirements.asset.address
        THEN Err("AssetMismatch", "", <<>>)
        ELSE IF IsSome(allowed_spenders)
                /\ permit_single.spender \notin Unwrap(allowed_spenders)
        THEN Err("RecipientMismatch", "", <<>>)
        ELSE IF assert_permit2_time(now, permit_single.sig_deadline,
                    details.expiration) # "Ok"
        THEN Err(assert_permit2_time(now, permit_single.sig_deadline,
                    details.expiration), "", <<>>)
        ELSE IF assert_enough_value(details.amount, amount_required) # "Ok"
        THEN Err(assert_enough_value(details.amount, amount_required), "", <<>>)
        ELSE IF assert_enough_balance(c.balance[details.token][permit2.owner],
                    amount_required) # "Ok"
        THEN Err("InsufficientFunds", "", <<"balanceOf">>)
        ELSE Ok([contract |-> PERMIT2_ADDRESS,
                 domain |-> assert_permit2_domain(chain),
                 payment |-> [amount |-> details.amount,
                              expiration |-> details.expiration,
                              nonce |-> details.nonce,
                              owner |-> permit2.owner,
                              pay_to |-> requirements.pay_to,
                              sig_deadline |-> permit_single.sig_deadline,
                              signature |-> permit2.signature,
                              spender |-> permit_single.spender,
                              token |-> details.token,
                              transfer_amount |-> amount_required],
                 tag |-> "Permit2"],
                <<"balanceOf">>)
\* the ERC-3009 branch of V1 checking the value before the balance
v1_eip3009_branch_value_first(c, now, chain, payload, requirements) ==
    LET authorization == Unwrap(payload.payload.authorization)
        asset_address == requirements.asset.address
        amount_required == requirements.max_amount_required
        domain_reads == assert_domain_reads(requirements.extra)
    IN  IF recipient_mismatch(authorization.to, requirements.pay_to)
        THEN Err("RecipientMismatch", "", <<>>)
        ELSE IF assert_time(now, authorization.valid_after,
                    authorization.valid_before) # "Ok"
        THEN Err(assert_time(now, authorization.valid_after,
                    authorization.valid_before), "", <<>>)
        ELSE IF assert_enough_value(authorization.value, amount_required) # "Ok"
        THEN Err(assert_enough_value(authorization.value, amount_required), "",
                 domain_reads)
        ELSE IF assert_enough_balance(c.balance[asset_address][authorization.from],
                    amount_required) # "Ok"
        THEN Err("InsufficientFunds", "", domain_reads \o <<"balanceOf">>)
        ELSE IF ~IsSome(payload.payload.signature)
        THEN Err("InvalidFormat", "Missing signature", domain_reads \o <<"balanceOf">>)
        ELSE Ok([contract |-> asset_address,
                 domain |-> assert_domain(chain, asset_address, requirements.extra),
                 payment |-> [from |-> authorization.from,
                              nonce |-> authorization.nonce,
                              signature |-> Unwrap(payload.payload.signature),
                              to |-> authorization.to,
                              valid_after |-> authorization.valid_after,
                              valid_before |-> authorization.valid_before,
                              value |-> authorization.value],
                 tag |-> "Eip3009"],
                domain_reads \o <<"balanceOf">>)

\* V1, authorization (ERC-3009) branch
v1_eip3009_branch(c, now, chain, payload, requirements) ==
    LET authorization == Unwrap(payload.payload.authorization)
        asset_address == requirements.asset.address
        amount_required == requirements.max_amount_required
        domain_reads == assert_domain_reads(requirements.extra)
    IN  IF recipient_mismatch(authorization.to, requirements.pay_to)
        THEN Err("RecipientMismatch", "", <<>>)
        ELSE IF assert_time(now, authorization.valid_after,
                    authorization.valid_before) # "Ok"
        THEN Err(assert_time(now, authorization.valid_after,
                    authorization.valid_before), "", <<>>)
        ELSE IF assert_enough_balance(c.balance[asset_address][authorization.from],
                    amount_required) # "Ok"
        THEN Err("InsufficientFunds", "", domain_reads \o <<"balanceOf">>)
        ELSE IF assert_enough_value(authorization.value, amount_required) # "Ok"
        THEN Err(assert_enough_value(authorization.value, amount_required), "",
                 domain_reads \o <<"balanceOf">>)
        ELSE IF ~IsSome(payload.payload.signature)
        THEN Err("InvalidFormat", "Missing signature", domain_reads \o <<"balanceOf">>)
        ELSE Ok([contract |-> asset_address,
                 domain |-> assert_domain(chain, asset_address, requirements.extra),
                 payment |-> [from |-> authorization.from,
                              nonce |-> authorization.nonce,
                              signature |-> Unwrap(payload.payload.signature),
                              to |-> authorization.to,
                              valid_after |-> authorization.valid_after,
                              valid_before |-> authorization.valid_before,
                              value |-> authorization.value],
                 tag |-> "Eip3009"],
                domain_reads \o <<"balanceOf">>)
\* a branch selection that looks at authorization before the Permit2 parts
assert_valid_payment_v1_authorization_first(c, now, chain, payload, requirements, allowed_spenders) ==
    IF IsSome(payload.payload.authorization)
    THEN v1_eip3009_branch(c, now, chain, payload, requirements)
    ELSE IF IsSome(payload.payload.permit2)
    THEN v1_permit2_branch(c, now, chain, payload, requirements, allowed_spenders)
    ELSE IF IsSome(payload.payload.permit2_authorization)
    THEN v1_permit2_witness_branch(c, now, chain, payload, requirements)
    ELSE Err("InvalidFormat", "Missing authorization or permit2 payload", <<>>)

\* v1_eip155_exact::facilitator::assert_valid_payment
assert_valid_payment_v1(c, now, chain, payload, requirements, allowed_spenders) ==
    LET chain_id == chain
        payload_chain_id == from_network_name(payload.network)
        requirements_chain_id == from_network_name(requirements.network)
    IN  IF ~IsSome(payload_chain_id) THEN Err("UnsupportedChain", "", <<>>)
        ELSE IF Unwrap(payload_chain_id) # chain_id THEN Err("ChainIdMismatch", "", <<>>)
        ELSE IF ~IsSome(requirements_chain_id) THEN Err("UnsupportedChain", "", <<>>)
        ELSE IF Unwrap(requirements_chain_id) # chain_id
        THEN Err("ChainIdMismatch", "", <<>>)
        ELSE IF IsSome(payload.payload.permit2_authorization)
        THEN v1_permit2_witness_branch(c, now, chain, payload, requirements)
        ELSE IF IsSome(payload.payload.permit2)
        THEN v1_permit2_branch(c, now, chain, payload, requirements, allowed_spenders)
        ELSE IF IsSome(payload.payload.authorization)
        THEN v1_eip3009_branch(c, now, chain, payload, requirements)
        ELSE Err("InvalidFormat", "Missing authorization or permit2 payload", <<>>)

\* V2, permit2_authorization branch (accepted.amount is the field max_amount_required;
\* the third argument of the time check, accepted.max_timeout_seconds, is not a
\* parameter of assert_permit2_witness_time and plays no part in it)
v2_permit2_witness_branch(c, now, chain, payload, accepted) ==
    LET permit2_auth == Unwrap(payload.permit2_authorization)
        proxy_address == x402_exact_permit2_proxy_address
        asset_address == accepted.asset.address
        amount_required_u256 == accepted.max_amount_required
    IN  IF permit2_auth.permitted.token # asset_address
        THEN Err("AssetMismatch", "", <<>>)
        ELSE IF spender_mismatch(permit2_auth.spender, proxy_address)
        THEN Err("InvalidFormat",
                 "permit2Authorization.spender must be the x402 Permit2 proxy", <<>>)
        ELSE IF recipient_mismatch(permit2_auth.witness.to, accepted.pay_to)
        THEN Err("RecipientMismatch", "", <<>>)
        ELSE IF permit2_auth.permitted.amount # amount_required_u256
        THEN Err("InvalidPaymentAmount", "", <<>>)
        ELSE IF assert_permit2_witness_time(now, permit2_auth.deadline,
                    permit2_auth.witness.valid_after) # "Ok"
        THEN Err(assert_permit2_witness_time(now, permit2_auth.deadline,
                    permit2_auth.witness.valid_after), "", <<>>)
        ELSE IF assert_enough_balance(c.balance[asset_address][permit2_auth.from],
                    amount_required_u256) # "Ok"
        THEN Err("InsufficientFunds", "", <<"balanceOf">>)
        ELSE IF c.erc20Allow[asset_address][permit2_auth.from] < amount_required_u256
        THEN Err("TransactionSimulation", "Permit2 ERC20 allowance is insufficient",
                 <<"balanceOf", "allowance">>)
        ELSE IF ~IsSome(payload.signature)
        THEN Err("InvalidFormat", "Missing signature", <<"balanceOf", "allowance">>)
        ELSE Ok([contract |-> proxy_address,
                 domain |-> assert_permit2_witness_domain(chain),
                 payment |-> [amount |-> permit2_auth.permitted.amount,
                              deadline |-> permit2_auth.deadline,
                              extra |-> permit2_auth.witness.extra,
                              from |-> permit2_auth.from,
                              nonce |-> permit2_auth.nonce,
                              pay_to |-> accepted.pay_to,
                              signature |-> Unwrap(payload.signature),
                              spender |-> permit2_auth.spender,
                              token |-> asset_address,
                              transfer_amount |-> amount_required_u256,
                              valid_after |-> permit2_auth.witness.valid_after],
                 tag |-> "Permit2Witness"],
                <<"balanceOf", "allowance">>)

\* V2, permit2 branch
v2_permit2_branch(c, now, chain, payload, accepted, allowed_spenders) ==
    LET permit2 == Unwrap(payload.permit2)
        permit_single == permit2.permit_single
        details == permit_single.details
        asset_address == accepted.asset.address
        amount_required == accepted.max_amount_required
    IN  IF details.token # asset_address
        THEN Err("AssetMismatch", "", <<>>)
        ELSE IF IsSome(allowed_spenders)
                /\ permit_single.spender \notin Unwrap(allowed_spenders)
        THEN Err("RecipientMismatch", "", <<>>)
        ELSE IF assert_permit2_time(now, permit_single.sig_deadline,
                    details.expiration) # "Ok"
        THEN Err(assert_permit2_time(now, permit_single.sig_deadline,
                    details.expiration), "", <<>>)
        ELSE IF assert_enough_value(details.amount, amount_required) # "Ok"
        THEN Err(assert_enough_value(details.amount, amount_required), "", <<>>)
        ELSE IF assert_enough_balance(c.balance[asset_address][permit2.owner],
                    amount_required) # "Ok"
        THEN Err("InsufficientFunds", "", <<"balanceOf">>)
        ELSE Ok([contract |-> PERMIT2_ADDRESS,
                 domain |-> assert_permit2_domain(chain),
                 payment |-> [amount |-> details.amount,
                              expiration |-> details.expiration,
                              nonce |-> details.nonce,
                              owner |-> permit2.owner,
                              pay_to |-> accepted.pay_to,
                              sig_deadline |-> permit_single.sig_deadline,
                              signature |-> permit2.signature,
                              spender |-> permit_single.spender,
                              token |-> details.token,
                              transfer_amount |-> amount_required],
                 tag |-> "Permit2"],
                <<"balanceOf">>)

\* V2, authorization (ERC-3009) branch
v2_eip3009_branch(c, now, chain, payload, accepted) ==
    IF ~IsSome(payload.authorization)
    THEN Err("InvalidFormat", "Missing authorization", <<>>)
    ELSE
    LET authorization == Unwrap(payload.authorization)
        asset_address == accepted.asset.address
        amount_required == accepted.max_amount_required
        domain_reads == assert_domain_reads(accepted.extra)
    IN  IF recipient_mismatch(authorization.to, accepted.pay_to)
        THEN Err("RecipientMismatch", "", <<>>)
        ELSE IF assert_time(now, authorization.valid_after,
                    authorization.valid_before) # "Ok"
        THEN Err(assert_time(now, authorization.valid_after,
                    authorization.valid_before), "", <<>>)
        ELSE IF assert_enough_balance(c.balance[asset_address][authorization.from],
                    amount_required) # "Ok"
        THEN Err("InsufficientFunds", "", domain_reads \o <<"balanceOf">>)
        ELSE IF assert_enough_value(authorization.value, amount_required) # "Ok"
        THEN Err(assert_enough_value(authorization.value, amount_required), "",
                 domain_reads \o <<"balanceOf">>)
        ELSE IF ~IsSome(payload.signature)
        THEN Err("InvalidFormat", "Missing signature", domain_reads \o <<"balanceOf">>)
        ELSE Ok([contract |-> asset_address,
                 domain |-> assert_domain(chain, asset_address, accepted.extra),
                 payment |-> [from |-> authorization.from,
                              nonce |-> authorization.nonce,
                              signature |-> Unwrap(payload.signature),
                              to |-> authorization.to,
                              valid_after |-> authorization.valid_after,
                              valid_before |-> authorization.valid_before,
                              value |-> authorization.value],
                 tag |-> "Eip3009"],
                domain_reads \o <<"balanceOf">>)

\* the V2 assert_valid_payment with the chain binding ahead of the comparison of
\* accepted with the requirements
assert_valid_payment_v2_binding_first(c, now, chain, payload, requirements, allowed_spenders) ==
    LET accepted == payload.accepted
        chain_id == chain
    IN  IF accepted.network # chain_id THEN Err("ChainIdMismatch", "", <<>>)
        ELSE IF IsSome(accepted.asset.chain) /\ Unwrap(accepted.asset.chain) # chain_id
        THEN Err("ChainIdMismatch", "", <<>>)
        ELSE IF accepted # requirements
        THEN Err("AcceptedRequirementsMismatch", "", <<>>)
        ELSE IF IsSome(payload.payload.permit2_authorization)
        THEN v2_permit2_witness_branch(c, now, chain, payload.payload, accepted)
        ELSE IF IsSome(payload.payload.permit2)
        THEN v2_permit2_branch(c, now, chain, payload.payload, accepted, allowed_spenders)
        ELSE v2_eip3009_branch(c, now, chain, payload.payload, accepted)

\* v2_eip155_exact::facilitator::assert_valid_payment; `payload` is the V2 payment
\* payload [accepted, payload]
assert_valid_payment_v2(c, now, chain, payload, requirements, allowed_spenders) ==
    LET accepted == payload.accepted
        chain_id == chain
    IN  IF accepted # requirements
        THEN Err("AcceptedRequirementsMismatch", "", <<>>)
        ELSE IF accepted.network # chain_id THEN Err("ChainIdMismatch", "", <<>>)
        ELSE IF IsSome(accepted.asset.chain) /\ Unwrap(accepted.asset.chain) # chain_id
        THEN Err("ChainIdMismatch", "", <<>>)
        ELSE IF IsSome(requirements.asset.chain)
                /\ Unwrap(requirements.asset.chain) # chain_id
        THEN Err("ChainIdMismatch", "", <<>>)
        ELSE IF IsSome(payload.payload.permit2_authorization)
        THEN v2_permit2_witness_branch(c, now, chain, payload.payload, accepted)
        ELSE IF IsSome(payload.payload.permit2)
        THEN v2_permit2_branch(c, now, chain, payload.payload, accepted, allowed_spenders)
        ELSE v2_eip3009_branch(c, now, chain, payload.payload, accepted)

(***************************************************************************)
(* Signature classification.  Raw signature bytes are modelled by their    *)
(* format:                                                                 *)
(*   "sig65"      r || s || v, a 65-byte ECDSA signature of `key` over     *)
(*                `digest`                                                 *)
(*   "sig64"      r || yParityAndS, the same signature in ERC-2098 form    *)
(*   "bytes"      `len` bytes that do not end in the magic suffix; read as *)
(*                a compact signature they recover `key` over `digest`     *)
(*   "eip6492"    abi_encode(factory, factoryCalldata, innerSig) followed  *)
(*                by the magic suffix                                      *)
(*   "eip6492bad" `len` bytes that end in the magic suffix after a prefix  *)
(*                that is no ABI encoding; read as a compact signature     *)
(*                they recover `key` over `digest`                         *)
(*   "abi"        abi_encode(factory, factoryCalldata, innerSig) alone     *)
(*   "mutated"    the string `of` with a byte of its last 32 bytes changed *)
(*   "cut"        the string `of` without its last 32 bytes, where that is *)
(*                no complete ABI encoding                                 *)
(***************************************************************************)
EIP6492_MAGIC_SUFFIX == "6492649264926492649264926492649264926492649264926492649264926492"

\* bytes.len(); an encoded (address, bytes, bytes) has three head words, and a
\* length word and padded data for each of the two byte strings (the factory
\* calldata fills one word)
RECURSIVE ByteLen(_)
ByteLen(bytes) ==
    LET Pad32(n) == ((n + 31) \div 32) * 32
    IN
    CASE bytes.fmt = "sig65" -> 65
      [] bytes.fmt = "sig64" -> 64
      [] bytes.fmt \in {"bytes", "eip6492bad"} -> bytes.len
      [] bytes.fmt = "abi" -> 96 + 32 + 32 + 32 + Pad32(ByteLen(bytes.inner))
      [] bytes.fmt = "eip6492" -> 96 + 32 + 32 + 32 + Pad32(ByteLen(bytes.inner)) + 32
      [] bytes.fmt = "mutated" -> ByteLen(bytes.of)
      [] bytes.fmt = "cut" -> ByteLen(bytes.of) - 32

\* bytes[bytes.len() - 32..], for a string of at least 32 bytes: the magic suffix
\* or some other 32 bytes.  An encoding ends with the data of innerSig, which is
\* unpadded when its length is a multiple of 32.
RECURSIVE Last32(_)
Last32(bytes) ==
    CASE bytes.fmt \in {"eip6492", "eip6492bad"} -> EIP6492_MAGIC_SUFFIX
      [] bytes.fmt = "abi" ->
            IF ByteLen(bytes.inner) >= 32 /\ ByteLen(bytes.inner) % 32 = 0
            THEN Last32(bytes.inner) ELSE "other"
      [] OTHER -> "other"

\* &bytes[..bytes.len() - 32]
Body(bytes) ==
    IF bytes.fmt = "eip6492"
    THEN [factory |-> bytes.factory,
          factory_calldata |-> bytes.factory_calldata,
          fmt |-> "abi",
          inner |-> bytes.inner]
    ELSE [fmt |-> "cut",
          of |-> bytes]

\* Sig6492::abi_decode_params(body): the encoded triple, or an error
Sig6492_abi_decode_params(body) ==
    IF body.fmt = "abi"
    THEN Some([factory |-> body.factory,
               factoryCalldata |-> body.factory_calldata,
               innerSig |-> body.inner])
    ELSE None

\* Signature::from_raw(&bytes).ok() on 65 bytes: fails on an invalid parity byte
Signature_from_raw(bytes) ==
    IF bytes.fmt = "sig65" THEN Some(bytes) ELSE None

\* Signature::from_erc2098(&bytes) on 64 bytes: always a signature
Signature_from_erc2098(bytes) ==
    IF bytes.fmt \in {"sig64", "bytes", "eip6492bad"}
    THEN Sign(bytes.key, bytes.digest)
    ELSE Sign("", <<>>)

try_from_bytes_recovery_first(bytes, expected_signer, prehash) ==
    LET eoa_signature ==
            IF ByteLen(bytes) = 65 THEN Signature_from_raw(bytes)
            ELSE IF ByteLen(bytes) = 64 THEN Some(Signature_from_erc2098(bytes))
            ELSE None
        is_eip6492 == ByteLen(bytes) >= 32 /\ Last32(bytes) = EIP6492_MAGIC_SUFFIX
    IN  IF /\ IsSome(eoa_signature)
           /\ recover_address_from_prehash(Unwrap(eoa_signature), prehash) = expected_signer
        THEN [signature |-> Unwrap(eoa_signature),
              tag |-> "EOA"]
        ELSE IF is_eip6492
        THEN LET sig6492 == Sig6492_abi_decode_params(Body(bytes))
             IN  IF ~IsSome(sig6492) THEN [tag |-> "FormatError"]
                 ELSE [factory |-> Unwrap(sig6492).factory,
                       factory_calldata |-> Unwrap(sig6492).factoryCalldata,
                       inner |-> Unwrap(sig6492).innerSig,
                       original |-> bytes,
                       tag |-> "EIP6492"]
        ELSE [signature |-> bytes,
              tag |-> "EIP1271"]

try_from_bytes_any_signer(bytes, expected_signer, prehash) ==
    LET is_eip6492 == ByteLen(bytes) >= 32 /\ Last32(bytes) = EIP6492_MAGIC_SUFFIX
        eoa_signature ==
            IF ByteLen(bytes) = 65 THEN Signature_from_raw(bytes)
            ELSE IF ByteLen(bytes) = 64 THEN Some(Signature_from_erc2098(bytes))
            ELSE None
    IN  IF is_eip6492
        THEN LET sig6492 == Sig6492_abi_decode_params(Body(bytes))
             IN  IF ~IsSome(sig6492) THEN [tag |-> "FormatError"]
                 ELSE [factory |-> Unwrap(sig6492).factory,
                       factory_calldata |-> Unwrap(sig6492).factoryCalldata,
                       inner |-> Unwrap(sig6492).innerSig,
                       original |-> bytes,
                       tag |-> "EIP6492"]
        ELSE IF IsSome(eoa_signature)
        THEN [signature |-> Unwrap(eoa_signature),
              tag |-> "EOA"]
        ELSE [signature |-> bytes,
              tag |-> "EIP1271"]

\* StructuredSignature::try_from_bytes; the EOA variant holds the parsed signature
\* (normalized_s changes neither the signer nor the digest it recovers)
try_from_bytes(bytes, expected_signer, prehash) ==
    LET is_eip6492 == ByteLen(bytes) >= 32 /\ Last32(bytes) = EIP6492_MAGIC_SUFFIX
        eoa_signature ==
            IF ByteLen(bytes) = 65 THEN Signature_from_raw(bytes)
            ELSE IF ByteLen(bytes) = 64 THEN Some(Signature_from_erc2098(bytes))
            ELSE None
    IN  IF is_eip6492
        THEN LET sig6492 == Sig6492_abi_decode_params(Body(bytes))
             IN  IF ~IsSome(sig6492) THEN [tag |-> "FormatError"]
                 ELSE [factory |-> Unwrap(sig6492).factory,
                       factory_calldata |-> Unwrap(sig6492).factoryCalldata,
                       inner |-> Unwrap(sig6492).innerSig,
                       original |-> bytes,
                       tag |-> "EIP6492"]
        ELSE IF /\ IsSome(eoa_signature)
                /\ recover_address_from_prehash(Unwrap(eoa_signature), prehash)
                       = expected_signer
        THEN [signature |-> Unwrap(eoa_signature),
              tag |-> "EOA"]
        ELSE [signature |-> bytes,
              tag |-> "EIP1271"]

\* SignedMessage::extract
SignedMessage_extract(payment, domain) ==
    LET eip712_hash == HashTransferWithAuthorization(domain, payment.from, payment.to,
                           payment.value, payment.valid_after, payment.valid_before,
                           payment.nonce)
    IN  [address |-> payment.from, hash |-> eip712_hash,
         signature |-> try_from_bytes(payment.signature, payment.from, eip712_hash)]

\* the call built by TransferWithAuthorization0Call::new / TransferWithAuthorization1Call::new
TransferWithAuthorizationCall(fn, contract, payment, signature) ==
    [args |-> [from |-> payment.from,
               nonce |-> payment.nonce,
               signature |-> signature,
               to |-> payment.to,
               validAfter |-> payment.valid_after,
               validBefore |-> payment.valid_before,
               value |-> payment.value],
     fn |-> fn,
     target |-> contract]

TransferWithAuthorization0Call(contract, payment, signature) ==
    TransferWithAuthorizationCall("transferWithAuthorization_0", contract, payment, signature)

TransferWithAuthorization1Call(contract, payment, signature) ==
    TransferWithAuthorizationCall("transferWithAuthorization_1", contract, payment, signature)

(***************************************************************************)
(* Unsigned integers of the widths the code uses (U256, U160, u64, U48).   *)
(* A value is the sequence of its base-2^16 digits, least significant      *)
(* first: 16 digits for 256 bits, 10 for 160, 4 for 64, 3 for 48.          *)
(***************************************************************************)
\* Uint::<bits>::MAX
UintMax(bits) == [i \in 1..(bits \div 16) |-> 65535]
\* the value of x at another width, digits beyond it dropped
Resize(x, bits) == [i \in 1..(bits \div 16) |-> IF i <= Len(x) THEN x[i] ELSE 0]
\* does the value of x fit the width
Fits(x, bits) == \A i \in 1..Len(x) : i > bits \div 16 => x[i] = 0
\* x > y, both of one width
Greater(x, y) ==
    \E i \in 1..Len(x) : x[i] > y[i] /\ \A j \in (i + 1)..Len(x) : x[j] = y[j]
\* Uint::as_limbs: the 64-bit limbs, least significant first
as_limbs(x) == [l \in 1..(Len(x) \div 4) |-> SubSeq(x, 4 * l - 3, 4 * l)]
\* the digits of a sequence of limbs
LimbDigits(limbs) == [i \in 1..(4 * Len(limbs)) |-> limbs[((i - 1) \div 4) + 1][((i - 1) % 4) + 1]]
\* the numbers of the request pipeline, which are below 2^31, at a width and back
from_nat(n, bits) ==
    [i \in 1..(bits \div 16) |-> IF i = 1 THEN n % 65536
                                 ELSE IF i = 2 THEN n \div 65536
                                 ELSE 0]
to_nat(x) == x[1] + 65536 * x[2]

\* Result<_, PaymentVerificationError> of a coercion
Coerced(v) == [err |-> "",
               msg |-> <<>>,
               value |-> v]
InvalidFormat(msg) == [err |-> "InvalidFormat",
                       msg |-> msg,
                       value |-> <<>>]
\* U160::from_limbs asserts that the value fits 160 bits
Panicked == [err |-> "panic",
             msg |-> <<"Value too large for this Uint">>,
             value |-> <<>>]

\* a coercion that keeps the low 160 bits of whatever it is given
permit2_amount_truncating(amount) == Coerced(Resize(amount, 160))
\* permit2_amount: U256 to U160
permit2_amount(amount) ==
    IF Greater(amount, Resize(UintMax(160), 256))
    THEN InvalidFormat(<<"Permit2", "amount", "exceeds uint160">>)
    ELSE LET limbs == as_limbs(amount)
             low == LimbDigits(<<limbs[1], limbs[2], limbs[3]>>)
         IN  IF Fits(low, 160) THEN Coerced(Resize(low, 160)) ELSE Panicked

\* (1u64 << 48) - 1
PERMIT2_U48_MAX == Resize(UintMax(48), 64)
\* a coercion that keeps the low 48 bits of whatever it is given
permit2_u48_wrapping(value, field) == Coerced(Resize(value, 48))
\* permit2_u48: u64 to U48
permit2_u48(value, field) ==
    IF Greater(value, PERMIT2_U48_MAX)
    THEN InvalidFormat(<<"Permit2", field, "exceeds uint48">>)
    ELSE Coerced(Resize(value, 48))

\* build_permit2_single_call: the PermitSingle of a payment, or the first coercion
\* that fails (amount, expiration, nonce)
build_permit2_single_call(payment) ==
    LET amount == permit2_amount(payment.amount)
        expiration == permit2_u48(payment.expiration, "expiration")
        nonce == permit2_u48(payment.nonce, "nonce")
    IN  IF amount.err # "" THEN amount
        ELSE IF expiration.err # "" THEN expiration
        ELSE IF nonce.err # "" THEN nonce
        ELSE Coerced([details |-> [amount |-> amount.value,
                                   expiration |-> expiration.value,
                                   nonce |-> nonce.value,
                                   token |-> payment.token],
                      sigDeadline |-> Resize(payment.sig_deadline, 256),
                      spender |-> payment.spender])

\* a Permit2Payment of the request pipeline with its numbers at the widths of the
\* struct (amount and transfer_amount U256; expiration, nonce and sig_deadline u64)
Permit2Payment(payment) ==
    [amount |-> from_nat(payment.amount, 256),
     expiration |-> from_nat(payment.expiration, 64),
     nonce |-> from_nat(payment.nonce, 64),
     owner |-> payment.owner,
     pay_to |-> payment.pay_to,
     sig_deadline |-> from_nat(payment.sig_deadline, 64),
     signature |-> payment.signature,
     spender |-> payment.spender,
     token |-> payment.token,
     transfer_amount |-> from_nat(payment.transfer_amount, 256)]
\* the PermitSingle handed to the chain model, which counts in plain numbers
PermitSingle(permit_single) ==
    [details |-> [amount |-> to_nat(permit_single.details.amount),
                  expiration |-> to_nat(permit_single.details.expiration),
                  nonce |-> to_nat(permit_single.details.nonce),
                  token |-> permit_single.details.token],
     sigDeadline |-> to_nat(permit_single.sigDeadline),
     spender |-> permit_single.spender]

build_permit2_proxy_permit(payment) ==
    [deadline |-> payment.deadline,
     nonce |-> payment.nonce,
     permitted |-> [amount |-> payment.amount,
                    token |-> payment.token]]

build_permit2_proxy_witness(payment) ==
    [extra |-> payment.extra,
     to |-> payment.pay_to,
     validAfter |-> payment.valid_after]

PermitCall(contract, payment) ==
    [args |-> [owner |-> payment.owner,
               permitSingle |->
                   PermitSingle(build_permit2_single_call(Permit2Payment(payment)).value),
               signature |-> payment.signature],
     fn |-> "permit",
     target |-> contract]

ProxySettleCall(contract, payment, signature) ==
    [args |-> [owner |-> payment.from,
               permit |-> build_permit2_proxy_permit(payment),
               signature |-> signature,
               witness |-> build_permit2_proxy_witness(payment)],
     fn |-> "settle",
     target |-> contract]

IsValidSigWithSideEffectsCall(payer, hash, original) ==
    [args |-> [hash |-> hash,
               signature |-> original,
               signer |-> payer],
     fn |-> "isValidSigWithSideEffects",
     target |-> VALIDATOR_ADDRESS]

(***************************************************************************)
(* Verification: every step is an eth_call or a read against the state c;  *)
(* the result is [err, msg, payer, rpc], rpc being the RPC operations      *)
(* issued, each [kind, calls].                                             *)
(***************************************************************************)
VErr(e, msg, rpc, c) == [c |-> c,
                         err |-> e,
                         msg |-> msg,
                         payer |-> "",
                         rpc |-> rpc]
VOk(payer, rpc, c) == [c |-> c,
                       err |-> "",
                       msg |-> "",
                       payer |-> payer,
                       rpc |-> rpc]
EthCall(call) == [calls |-> <<call>>,
                  kind |-> "eth_call"]
Multicall(call1, call2) == [calls |-> <<call1, call2>>,
                            kind |-> "multicall"]
Read(what) == [calls |-> <<[args |-> <<>>,
                            fn |-> what,
                            target |-> ""]>>,
               kind |-> "read"]

\* a call that is mined instead of simulated
eth_call_committing(c, now, sender, call) == Exec(c, now, sender, call)

\* a SolCallBuilder's .call(): the call runs against the state and the state is kept
eth_call(c, now, sender, call) ==
    LET Returned(r) == [c |-> c,
                        ok |-> r.ok,
                        ret |-> r.ret]
    IN  Returned(Exec(c, now, sender, call))

\* provider.multicall().add(a).add(b).aggregate3(): one eth_call of both items
aggregate3_call(c, now, call1, call2) ==
    LET Returned(r) == [c |-> c,
                        ok |-> r.ok,
                        r1 |-> r.r1,
                        r2 |-> r.r2]
    IN  Returned(ExecAggregate3(c, now, <<[allowFailure |-> FALSE, call |-> call1],
                                          [allowFailure |-> FALSE, call |-> call2]>>))
\* an aggregate3 simulation that looks at the settlement item before the validator item
verify_eip6492_transfer_first(c, now, payer, validator_call, settlement_call) ==
    LET rpc == <<Multicall(validator_call, settlement_call)>>
        Outcome(r) ==
            IF ~r.r2.ok THEN VErr("TransactionSimulation", "", rpc, r.c)
            ELSE IF ~r.r1.ok THEN VErr("InvalidSignature", "validator call failed", rpc, r.c)
            ELSE IF ~r.r1.ret
            THEN VErr("InvalidSignature", "Chain reported signature to be invalid", rpc, r.c)
            ELSE VOk(payer, rpc, r.c)
    IN  Outcome(aggregate3_call(c, now, validator_call, settlement_call))

\* the aggregate3 simulation of the validator call and a settlement call
verify_eip6492(c, now, payer, validator_call, settlement_call) ==
    LET rpc == <<Multicall(validator_call, settlement_call)>>
        Outcome(r) ==
            IF ~r.r1.ok THEN VErr("InvalidSignature", "validator call failed", rpc, r.c)
            ELSE IF ~r.r1.ret
            THEN VErr("InvalidSignature", "Chain reported signature to be invalid", rpc, r.c)
            ELSE IF ~r.r2.ok THEN VErr("TransactionSimulation", "", rpc, r.c)
            ELSE VOk(payer, rpc, r.c)
    IN  Outcome(aggregate3_call(c, now, validator_call, settlement_call))

verify_payment(c, now, contract, payment, eip712_domain) ==
    LET Outcome(payer, call, r) ==
            IF r.ok THEN VOk(payer, <<EthCall(call)>>, r.c)
            ELSE VErr("OnchainFailure", "", <<EthCall(call)>>, r.c)
        Simulated(payer, call) == Outcome(payer, call, eth_call(c, now, "", call))
        Verified(signed_message, payer, sig) ==
            CASE sig.tag = "FormatError" ->
                    VErr("InvalidSignature", "InvalidEIP6492Format", <<>>, c)
              [] sig.tag = "EIP6492" ->
                    verify_eip6492(c, now, payer,
                        IsValidSigWithSideEffectsCall(payer, signed_message.hash, sig.original),
                        TransferWithAuthorization0Call(contract, payment, sig.inner))
              [] sig.tag = "EIP1271" ->
                    Simulated(payer,
                        TransferWithAuthorization0Call(contract, payment, sig.signature))
              [] sig.tag = "EOA" ->
                    Simulated(payer,
                        TransferWithAuthorization1Call(contract, payment, sig.signature))
        Extracted(signed_message) ==
            Verified(signed_message, signed_message.address, signed_message.signature)
    IN  Extracted(SignedMessage_extract(payment, eip712_domain))
\* verify_payment_permit2 without the re-read of the ERC-20 allowance
verify_payment_permit2_without_allowance_read(c, now, contract, payment, eip712_domain) ==
    LET permit_call == PermitCall(contract, payment)
        token_transfer == [args |-> [amount |-> payment.transfer_amount,
                                     from |-> payment.owner,
                                     to |-> payment.pay_to],
                           fn |-> "transferFrom",
                           target |-> payment.token]
        Outcome(r1, r2) ==
            IF ~r1.ok
            THEN VErr("InvalidSignature", "", <<EthCall(permit_call)>>, r1.c)
            ELSE IF ~r2.ok
            THEN VErr("TransactionSimulation", "",
                      <<EthCall(permit_call), EthCall(token_transfer)>>, r2.c)
            ELSE VOk(payment.owner, <<EthCall(permit_call), EthCall(token_transfer)>>, r2.c)
        Permitted(r1) == Outcome(r1, eth_call(r1.c, now, PERMIT2_ADDRESS, token_transfer))
    IN  Permitted(eth_call(c, now, "", permit_call))

verify_payment_permit2(c, now, contract, payment, eip712_domain) ==
    LET payer == payment.owner
        permit_call == PermitCall(contract, payment)
        token_transfer == [args |-> [amount |-> payment.transfer_amount,
                                     from |-> payment.owner,
                                     to |-> payment.pay_to],
                           fn |-> "transferFrom",
                           target |-> payment.token]
        Outcome(r1, r2) ==
            IF ~r1.ok
            THEN VErr("InvalidSignature", "", <<EthCall(permit_call)>>, r1.c)
            ELSE IF r1.c.erc20Allow[payment.token][payment.owner] < payment.transfer_amount
            THEN VErr("TransactionSimulation", "Permit2 ERC20 allowance is insufficient",
                      <<EthCall(permit_call), Read("allowance")>>, r1.c)
            ELSE IF ~r2.ok
            THEN VErr("TransactionSimulation", "",
                      <<EthCall(permit_call), Read("allowance"), EthCall(token_transfer)>>,
                      r2.c)
            ELSE VOk(payer,
                     <<EthCall(permit_call), Read("allowance"), EthCall(token_transfer)>>,
                     r2.c)
        Permitted(r1) == Outcome(r1, eth_call(r1.c, now, PERMIT2_ADDRESS, token_transfer))
    IN  Permitted(eth_call(c, now, "", permit_call))

verify_payment_permit2_witness(c, now, contract, payment, eip712_domain) ==
    LET payer == payment.from
        eip712_hash == HashPermitWitnessTransferFrom(eip712_domain, payment.from,
                           payment.spender, payment.token, payment.amount,
                           payment.valid_after, payment.deadline, payment.nonce,
                           payment.pay_to)
        Outcome(call, r) ==
            IF r.ok THEN VOk(payer, <<EthCall(call)>>, r.c)
            ELSE VErr("TransactionSimulation", "", <<EthCall(call)>>, r.c)
        Simulated(call) == Outcome(call, eth_call(c, now, "", call))
        Verified(sig) ==
            CASE sig.tag = "FormatError" ->
                    VErr("InvalidSignature", "InvalidEIP6492Format", <<>>, c)
              [] sig.tag = "EIP6492" ->
                    verify_eip6492(c, now, payer,
                        IsValidSigWithSideEffectsCall(payer, eip712_hash, sig.original),
                        ProxySettleCall(contract, payment, sig.inner))
              [] OTHER ->
                    Simulated(ProxySettleCall(contract, payment, payment.signature))
    IN  Verified(try_from_bytes(payment.signature, payer, eip712_hash))

(***************************************************************************)
(* Settlement: the meta-transactions a settle request submits.             *)
(***************************************************************************)
MetaTransaction(call) == [calldata |-> call,
                          confirmations |-> 1,
                          to |-> call.target]

Aggregate3Call(calls) ==
    [args |-> [calls |-> calls],
     fn |-> "aggregate3",
     target |-> MULTICALL3_ADDRESS]

\* a code lookup that finds every account empty
is_contract_deployed_never(c, address) == FALSE

\* is_contract_deployed: get_code_at(address) is not empty
is_contract_deployed(c, address) == address \in c.deployed

\* the transaction settle_payment sends: [err, meta, rpc]
settle_payment_meta(c, contract, payment, eip712_domain) ==
    LET signed_message == SignedMessage_extract(payment, eip712_domain)
        payer == payment.from
        sig == signed_message.signature
    IN  CASE sig.tag = "FormatError" ->
                [err |-> "InvalidSignature", meta |-> None, rpc |-> <<>>]
          [] sig.tag = "EIP6492" ->
                LET deployed == is_contract_deployed(c, payer)
                    transfer_call == TransferWithAuthorization0Call(contract, payment, sig.inner)
                    deployment_call == [allowFailure |-> TRUE,
                                        call |-> [args |-> <<>>,
                                                  fn |-> sig.factory_calldata,
                                                  target |-> sig.factory]]
                    transfer_with_authorization_call ==
                        [allowFailure |-> FALSE, call |-> transfer_call]
                IN  [err |-> "",
                     meta |-> IF deployed
                              THEN Some(MetaTransaction(transfer_call))
                              ELSE Some(MetaTransaction(Aggregate3Call(
                                       <<deployment_call, transfer_with_authorization_call>>))),
                     rpc |-> <<Read("get_code")>>]
          [] sig.tag = "EIP1271" ->
                [err |-> "",
                 meta |-> Some(MetaTransaction(
                              TransferWithAuthorization0Call(contract, payment, sig.signature))),
                 rpc |-> <<>>]
          [] sig.tag = "EOA" ->
                [err |-> "",
                 meta |-> Some(MetaTransaction(
                              TransferWithAuthorization1Call(contract, payment, sig.signature))),
                 rpc |-> <<>>]

\* the transaction settle_payment_permit2_witness sends
settle_payment_permit2_witness_meta(contract, payment) ==
    MetaTransaction(ProxySettleCall(contract, payment, payment.signature))
\* a Permit2 settlement that opens with the transfer
settle_payment_permit2_transfer_first_meta(contract, payment) ==
    MetaTransaction([args |-> [amount |-> payment.transfer_amount,
                               from |-> payment.owner,
                               to |-> payment.pay_to,
                               token |-> payment.token],
                     fn |-> "transferFrom",
                     target |-> contract])

\* the two transactions settle_payment_permit2 sends, both from payment.spender
settle_payment_permit2_permit_meta(contract, payment) ==
    MetaTransaction(PermitCall(contract, payment))

\* the transfer paying the spender instead of pay_to
settle_payment_permit2_transfer_meta_to_spender(contract, payment) ==
    MetaTransaction([args |-> [amount |-> payment.transfer_amount,
                               from |-> payment.owner,
                               to |-> payment.spender,
                               token |-> payment.token],
                     fn |-> "transferFrom",
                     target |-> contract])

settle_payment_permit2_transfer_meta(contract, payment) ==
    MetaTransaction([args |-> [amount |-> payment.transfer_amount,
                               from |-> payment.owner,
                               to |-> payment.pay_to,
                               token |-> payment.token],
                     fn |-> "transferFrom",
                     target |-> contract])

\* the provider signs with `signer`, submits and awaits the receipt: the transaction
\* is mined with the signer's next nonce; a reverted one changes nothing else.  The
\* hash of a transaction is told apart by its sender and that nonce.
send_transaction_from(c, now, meta, signer) ==
    LET Mined(r) == [c |-> [(IF r.ok THEN r.c ELSE c) EXCEPT !.signerNonce[signer] = @ + 1],
                     status |-> r.ok,
                     transaction_hash |-> <<signer, c.signerNonce[signer]>>]
    IN  Mined(IF meta.calldata.fn = "aggregate3"
              THEN ExecAggregate3(c, now, meta.calldata.args.calls)
              ELSE Exec(c, now, signer, meta.calldata))

\* the provider's default signer is the first registered one
send_transaction(c, now, meta) == send_transaction_from(c, now, meta, Signers[1])

(***************************************************************************)
(* The requests fed to the facilitator.                                    *)
(***************************************************************************)
Amounts == 1..MaxAmount
\* the amount every modelled PaymentRequirements asks for
RequiredAmount == MaxAmount - 1
\* (valid_after, valid_before) and (valid_after, deadline): open at every modelled
\* time; inside the 6-second grace at the last one; not yet open at the first
Windows == {<<0, MaxNow + 6>>, <<0, MaxNow + 5>>, <<MaxNow, MaxNow + 6>>}
\* (sig_deadline, expiration) of a PermitSingle
Permit2Windows == {<<MaxNow + 6, MaxNow + 6>>, <<MaxNow + 5, MaxNow + 6>>,
                   <<MaxNow + 6, MaxNow + 5>>}

ExactEvmPayload(signature, authorization, permit2, permit2_authorization) ==
    [authorization |-> authorization,
     permit2 |-> permit2,
     permit2_authorization |-> permit2_authorization,
     signature |-> signature]

ExactEvmPayloadAuthorization(from, to, value, w) ==
    [from |-> from,
     nonce |-> 0,
     to |-> to,
     valid_after |-> w[1],
     valid_before |-> w[2],
     value |-> value]

\* the digest a client signs for an ERC-3009 authorization of the token
AuthorizationDigest(a) ==
    HashTransferWithAuthorization(assert_domain(ProviderChain, Token, None),
        a.from, a.to, a.value, a.valid_after, a.valid_before, a.nonce)

Permit2Payload(token, amount, spender, w, key) ==
    [owner |-> Payer,
     permit_single |-> [details |-> [amount |-> amount,
                                     expiration |-> w[2],
                                     nonce |-> 0,
                                     token |-> token],
                        sig_deadline |-> w[1],
                        spender |-> spender],
     signature |-> Sign(key, HashPermitSingle(assert_permit2_domain(ProviderChain),
                        Payer, spender, token, amount, w[2], w[1], 0))]

Permit2Authorization(from, token, amount, spender, to, w) ==
    [deadline |-> w[2],
     from |-> from,
     nonce |-> 0,
     permitted |-> [amount |-> amount,
                    token |-> token],
     spender |-> spender,
     witness |-> [extra |-> "",
                  to |-> to,
                  valid_after |-> w[1]]]

WitnessDigest(p) ==
    HashPermitWitnessTransferFrom(assert_permit2_witness_domain(ProviderChain),
        p.from, p.spender, p.permitted.token, p.permitted.amount,
        p.witness.valid_after, p.deadline, p.nonce, p.witness.to)

\* an EIP-6492 wrapper: (factory, factoryCalldata, innerSig) and the magic suffix
Wrap6492(inner) ==
    [factory |-> WalletFactory,
     factory_calldata |-> "deploy",
     fmt |-> "eip6492",
     inner |-> inner]
Malformed6492 == [digest |-> <<>>,
                  fmt |-> "eip6492bad",
                  key |-> "",
                  len |-> 96]

\* payloads carrying only an ERC-3009 authorization of the payer
AuthorizationPayloads ==
    UNION {{ExactEvmPayload(sig, Some(a), None, None) :
                sig \in {None, Some(Sign(Payer, AuthorizationDigest(a))),
                         Some(Sign(Mallory, AuthorizationDigest(a)))}} :
           a \in {ExactEvmPayloadAuthorization(Payer, to, v, w) :
                      to \in PayTos, v \in Amounts, w \in Windows}}

\* authorizations of the counterfactual wallet (EIP-6492 and EIP-1271 signatures)
WalletAuthorization ==
    ExactEvmPayloadAuthorization(Wallet, "R1", RequiredAmount, <<0, MaxNow + 6>>)
WalletPayloads ==
    {ExactEvmPayload(Some(sig), Some(WalletAuthorization), None, None) :
        sig \in {Wrap6492(Sign(Payer, AuthorizationDigest(WalletAuthorization))),
                 Wrap6492(Sign(Mallory, AuthorizationDigest(WalletAuthorization))),
                 Malformed6492,
                 Sign(Payer, AuthorizationDigest(WalletAuthorization))}}

\* payloads carrying only a Permit2 PermitSingle
Permit2Payloads ==
    {ExactEvmPayload(None, None, Some(Permit2Payload(t, v, sp, w, key)), None) :
        t \in Tokens, v \in Amounts, sp \in Spenders, w \in Permit2Windows,
        key \in {Payer, Mallory}}

\* payloads carrying only a Permit2 witness authorization (of the payer, or of the
\* counterfactual wallet)
GoodWalletWitness ==
    Permit2Authorization(Wallet, Token, RequiredAmount, x402_exact_permit2_proxy_address,
                         "R1", <<0, MaxNow + 6>>)
WitnessAuthorizations ==
    {Permit2Authorization(Payer, Token, v, sp, to, w) :
        v \in Amounts, sp \in {x402_exact_permit2_proxy_address, Mallory},
        to \in PayTos, w \in Windows}
    \cup {Permit2Authorization(Payer, OtherToken, v, sp, "R1", <<0, MaxNow + 6>>) :
            v \in Amounts, sp \in {x402_exact_permit2_proxy_address, Mallory}}
WitnessPayloads ==
    UNION {{ExactEvmPayload(sig, None, None, Some(p)) :
                sig \in {Some(Sign(Payer, WitnessDigest(p))),
                         Some(Sign(Mallory, WitnessDigest(p)))}} :
           p \in WitnessAuthorizations}
    \cup {ExactEvmPayload(sig, None, None,
              Some(Permit2Authorization(Payer, Token, RequiredAmount,
                       x402_exact_permit2_proxy_address, "R1", <<0, MaxNow + 6>>))) :
            sig \in {None, Some(Malformed6492)}}
    \cup {ExactEvmPayload(Some(sig), None, None, Some(GoodWalletWitness)) :
            sig \in {Wrap6492(Sign(Payer, WitnessDigest(GoodWalletWitness))),
                     Wrap6492(Sign(Mallory, WitnessDigest(GoodWalletWitness))),
                     Sign(Payer, WitnessDigest(GoodWalletWitness))}}

\* payloads carrying several parts, or none
GoodAuthorization == ExactEvmPayloadAuthorization(Payer, "R1", RequiredAmount, <<0, MaxNow + 6>>)
GoodPermit2 ==
    Permit2Payload(Token, RequiredAmount, Signers[1], <<MaxNow + 6, MaxNow + 6>>, Payer)
GoodWitness ==
    Permit2Authorization(Payer, Token, RequiredAmount, x402_exact_permit2_proxy_address,
                         "R1", <<0, MaxNow + 6>>)
MixedPayloads ==
    {ExactEvmPayload(None, None, None, None),
     ExactEvmPayload(Some(Sign(Payer, AuthorizationDigest(GoodAuthorization))), None, None, None)}
    \cup {ExactEvmPayload(Some(Sign(Payer, WitnessDigest(GoodWitness))), Some(a), p2,
                          Some(GoodWitness)) :
            a \in {ExactEvmPayloadAuthorization(Payer, to, v, <<0, MaxNow + 6>>) :
                       to \in PayTos, v \in {RequiredAmount, MaxAmount}},
            p2 \in {None, Some(GoodPermit2)}}
    \cup {ExactEvmPayload(Some(Sign(Payer, AuthorizationDigest(a))), Some(a),
                          Some(GoodPermit2), None) :
            a \in {ExactEvmPayloadAuthorization(Payer, to, v, <<0, MaxNow + 6>>) :
                       to \in PayTos, v \in {RequiredAmount, MaxAmount}}}

Payloads ==
    AuthorizationPayloads \cup WalletPayloads \cup Permit2Payloads
        \cup WitnessPayloads \cup MixedPayloads

\* payloads used where the requirements or the networks vary
GoodPayloads ==
    {ExactEvmPayload(Some(Sign(Payer, AuthorizationDigest(GoodAuthorization))),
                     Some(GoodAuthorization), None, None),
     ExactEvmPayload(None, None, Some(GoodPermit2), None),
     ExactEvmPayload(Some(Sign(Payer, WitnessDigest(GoodWitness))), None, None,
                     Some(GoodWitness))}

\* V1 names the network; V2 carries the chain id, also inside the asset
NetworkNames == {"etherlink", "unknown"}
PaymentRequirements(network, asset_chain, pay_to, amount, extra) ==
    [asset |-> [address |-> Token,
                chain |-> asset_chain],
     extra |-> extra,
     max_amount_required |-> amount,
     network |-> network,
     pay_to |-> pay_to]

RequirementsV1 == PaymentRequirements("etherlink", None, "R1", RequiredAmount, None)
RequirementsV2 ==
    PaymentRequirements(ProviderChain, Some(ProviderChain), "R1", RequiredAmount, None)

\* V2 requirements that differ from RequirementsV2 in one field
OtherRequirementsV2 ==
    {PaymentRequirements(OtherChain, Some(ProviderChain), "R1", RequiredAmount, None),
     PaymentRequirements(ProviderChain, Some(OtherChain), "R1", RequiredAmount, None),
     PaymentRequirements(ProviderChain, Some(ProviderChain), "R2", RequiredAmount, None),
     PaymentRequirements(ProviderChain, Some(ProviderChain), "R1", MaxAmount, None)}

Kinds == {"verify", "settle"}
Request(kind, version, payload, requirements) ==
    [kind |-> kind,
     payload |-> payload,
     requirements |-> requirements,
     version |-> version]

\* every payload against the standard requirements, on the provider's network
PayloadRequests ==
    {Request(k, 1, [network |-> "etherlink", payload |-> p], RequirementsV1) :
        k \in Kinds, p \in Payloads}
    \cup {Request(k, 2, [accepted |-> RequirementsV2, payload |-> p], RequirementsV2) :
        k \in Kinds, p \in Payloads}

\* good payloads with an EIP-712 name and version given in requirements.extra
ExtraRequests ==
    {Request(k, 1, [network |-> "etherlink", payload |-> p],
             PaymentRequirements("etherlink", None, "R1", RequiredAmount,
                                 Some([name |-> n, version |-> "1"]))) :
        k \in Kinds, p \in GoodPayloads, n \in {TokenNameOnChain, "Other"}}

\* good payloads whose networks, or whose accepted requirements, vary
BindingRequests ==
    {Request(k, 1, [network |-> n1, payload |-> p],
             PaymentRequirements(n2, None, "R1", RequiredAmount, None)) :
        k \in Kinds, p \in GoodPayloads, n1 \in NetworkNames, n2 \in NetworkNames}
    \cup {Request(k, 2, [accepted |-> a, payload |-> p], r) :
        k \in Kinds, p \in GoodPayloads,
        a \in OtherRequirementsV2 \cup {RequirementsV2},
        r \in OtherRequirementsV2 \cup {RequirementsV2}}

\* every payload with accepted requirements that are not the request's
MismatchRequests ==
    {Request(k, 2, [accepted |-> a, payload |-> p], RequirementsV2) :
        k \in Kinds, p \in Payloads,
        a \in {PaymentRequirements(ProviderChain, Some(ProviderChain), "R1", MaxAmount, None)}}

Requests == PayloadRequests \cup ExtraRequests \cup BindingRequests \cup MismatchRequests

(***************************************************************************)
(* The facilitator serving requests, one at a time, against the chain.     *)
(*   now      the clock (UnixTimestamp::now and block.timestamp)           *)
(*   chain    the chain state                                              *)
(*   pc       where the handler of the request in flight stands            *)
(*   req      the request in flight (an Option)                            *)
(*   ctx      the PaymentContext assert_valid_payment returned (an Option) *)
(*   result   the response of the handler                                  *)
(*   rpcLog   the RPC operations issued for the request, in order          *)
(*   txs      the transactions submitted for the request, in order         *)
(*   served   the number of requests answered                              *)
(***************************************************************************)
VARIABLES now, chain, pc, req, ctx, result, rpcLog, txs, served,
          tnow, targs, tres,
          sbytes, sexpected, sprehash, sedit, sres,
          nstate, npending, ntasks, nlog,
          gconf, gaudit, gemitted, gqueries, gpc, greq, gres, grpc, gserved,
          wpayment, wbuilt, wresult, wtxs, wpc,
          kpc, kinput, kchain, kpattern, korigin, kparsed, kmatched,
          rtasks, rreq, rchain, rpool, rtxs

vars == <<now, chain, pc, req, ctx, result, rpcLog, txs, served, tnow, targs, tres,
         sbytes, sexpected, sprehash, sedit, sres, nstate, npending, ntasks, nlog,
         gconf, gaudit, gemitted, gqueries, gpc, greq, gres, grpc, gserved,
         wpayment, wbuilt, wresult, wtxs, wpc,
         kpc, kinput, kchain, kpattern, korigin, kparsed, kmatched,
         rtasks, rreq, rchain, rpool, rtxs>>
timeVars == <<tnow, targs, tres>>
sigVars == <<sbytes, sexpected, sprehash, sedit, sres>>
nonceVars == <<nstate, npending, ntasks, nlog>>
gateVars == <<gconf, gaudit, gemitted, gqueries, gpc, greq, gres, grpc, gserved>>
requestVars == <<now, chain, pc, req, ctx, result, rpcLog, txs, served>>
coerceVars == <<wpayment, wbuilt, wresult, wtxs, wpc>>
chainIdVars == <<kpc, kinput, kchain, kpattern, korigin, kparsed, kmatched>>
raceVars == <<rtasks, rreq, rchain, rpool, rtxs>>

(***************************************************************************)
(* The nonce manager (pending_nonce_manager): the NonceState of one signer *)
(* and its three operations.                                               *)
(***************************************************************************)
\* the tasks that call reserve concurrently, and the highest pending nonce the chain
\* starts with
NumTasks == 3
MaxPending == 1
Tasks == 1..NumTasks

SetMax(S) == CHOOSE x \in S : \A y \in S : y <= x

\* NonceState before first use: the RPC has not been consulted, nothing is reserved
FreshNonceState == [highest |-> None,
                    reserved |-> {}]
\* reserve that leaves a gap below the nonce it returns
reserve_leaving_gap(st, pending) ==
    LET known == IF IsSome(st.highest) THEN Unwrap(st.highest) ELSE pending
        n == SetMax({known} \cup st.reserved) + 2
    IN  [n |-> n,
         state |-> [highest |-> Some(known),
                    reserved |-> st.reserved \cup {n}]]

\* reserve that leaves what is reserved out of account
reserve_above_pending(st, pending) ==
    LET known == IF IsSome(st.highest) THEN Unwrap(st.highest) ELSE pending
    IN  [n |-> known + 1,
         state |-> [highest |-> Some(known),
                    reserved |-> st.reserved \cup {known + 1}]]
\* reserve(signer): the smallest integer greater than the highest of the latest
\* on-chain pending nonce (read from the RPC on first use, the highest-used counter
\* after that) and every currently reserved nonce; the integer is recorded as reserved
reserve(st, pending) ==
    LET known == IF IsSome(st.highest) THEN Unwrap(st.highest) ELSE pending
        n == SetMax({known} \cup st.reserved) + 1
    IN  [n |-> n,
         state |-> [highest |-> Some(known),
                    reserved |-> st.reserved \cup {n}]]

\* release that sets the counter to the released nonce
release_resetting(st, n, outcome) ==
    [highest |-> IF outcome = "mined" THEN Some(n) ELSE st.highest,
     reserved |-> st.reserved \ {n}]
\* release(signer, n, outcome): n leaves the reserved set; a mined outcome raises the
\* committed high-water mark
release(st, n, outcome) ==
    [highest |-> IF outcome = "mined"
                 THEN Some(IF IsSome(st.highest) /\ Unwrap(st.highest) > n
                           THEN Unwrap(st.highest)
                           ELSE n)
                 ELSE st.highest,
     reserved |-> st.reserved \ {n}]

\* failure recovery: re-read the on-chain pending nonce and rebuild the reserved set
\* above it
reconcile(st, pending) ==
    [highest |-> Some(pending),
     reserved |-> {r \in st.reserved : r > pending}]

\* a task that has not called reserve
IdleTask == [at |-> "idle",
             n |-> 0]

(***************************************************************************)
(* The compliance gate (compliance.rs).  A string is a sequence of         *)
(* characters, so that trimming, lowercasing, the prefix and the length    *)
(* are computed as the code computes them.                                 *)
(***************************************************************************)
\* str::to_lowercase and str::trim, over the characters the addresses below use
to_lowercase(s) ==
    LET lower == ("A" :> "a") @@ ("B" :> "b") @@ ("X" :> "x") @@ ("Z" :> "z")
    IN  [i \in 1..Len(s) |-> IF s[i] \in DOMAIN lower THEN lower[s[i]] ELSE s[i]]
trim(s) ==
    LET kept == {i \in 1..Len(s) : s[i] # " "}
    IN  IF kept = {} THEN <<>>
        ELSE SubSeq(s, CHOOSE i \in kept : \A j \in kept : i <= j,
                       CHOOSE i \in kept : \A j \in kept : j <= i)
is_ascii_hexdigit(ch) ==
    ch \in {"0", "1", "2", "3", "4", "5", "6", "7", "8", "9",
            "a", "b", "c", "d", "e", "f", "A", "B", "C", "D", "E", "F"}
starts_with_0x(s) == Len(s) >= 2 /\ s[1] = "0" /\ s[2] = "x"

\* normalize_address: trimmed and lowercased; a 42-character string that starts with
\* 0x is taken as it is, 40 hexadecimal digits get the prefix
normalize_address(address) ==
    LET normalized == to_lowercase(trim(address))
    IN  IF starts_with_0x(normalized) /\ Len(normalized) = 42
        THEN Some(normalized)
        ELSE IF /\ Len(normalized) = 40
                /\ \A i \in 1..40 : is_ascii_hexdigit(normalized[i])
        THEN Some(<<"0", "x">> \o normalized)
        ELSE None

is_valid_address(address) ==
    LET normalized == to_lowercase(trim(address))
    IN  /\ Len(normalized) = 42
        /\ starts_with_0x(normalized)
        /\ \A i \in 3..42 : is_ascii_hexdigit(normalized[i])

\* ComplianceProvider and ComplianceGate
Lists == [tag |-> "lists"]
Chainalysis(fail_closed) == [fail_closed |-> fail_closed,
                             tag |-> "chainalysis"]
ComplianceGate(enabled, deny_list, allow_list, provider, audit_log_path) ==
    [allow_list |-> allow_list,
     audit_log_path |-> audit_log_path,
     deny_list |-> deny_list,
     enabled |-> enabled,
     provider |-> provider]
provider_name(gate) == gate.provider.tag

ComplianceFailed(msg) == [err |-> "ComplianceFailed",
                          msg |-> msg]
Passed == [err |-> "",
           msg |-> <<>>]

\* query_chainalysis: the request fails (transport error, status other than 200, empty
\* body, invalid JSON), or extract_sanctions_status answers Some(true) ("blocked"),
\* Some(false) ("clear") or None ("unrecognized")
query_chainalysis(response, config) ==
    CASE response = "failed" ->
            [error |-> ComplianceFailed(<<"chainalysis request failed">>),
             verdict |-> "Err"]
      [] response = "blocked" -> [error |-> Passed, verdict |-> "Denied"]
      [] response = "clear" -> [error |-> Passed, verdict |-> "Allowed"]
      [] OTHER -> IF config.fail_closed
                  THEN [error |-> Passed, verdict |-> "Unknown"]
                  ELSE [error |-> Passed, verdict |-> "Allowed"]

CompliancePartyRecord(gate, role, address, status, reason) ==
    [address |-> address,
     provider |-> provider_name(gate),
     reason |-> reason,
     role |-> role,
     status |-> status]

\* validate_party in which an allow-listed address passes whatever the deny-list says
validate_party_allow_first(gate, role, address, response) ==
    LET Rejected(reason, error) ==
            [error |-> error,
             party |-> CompliancePartyRecord(gate, role, address, "denied", Some(reason)),
             queried |-> FALSE]
        Accepted ==
            [error |-> Passed,
             party |-> CompliancePartyRecord(gate, role, address, "passed", None),
             queried |-> FALSE]
    IN  IF address \in gate.allow_list
        THEN Accepted
        ELSE IF address \in gate.deny_list
        THEN Rejected("address is explicitly denied",
                      ComplianceFailed(<<role, "is denied by compliance policy">>))
        ELSE IF gate.allow_list # {}
        THEN Rejected("address is not in compliance allow-list",
                      ComplianceFailed(<<role, "is not in compliance allow-list">>))
        ELSE Accepted
\* validate_party that asks the remote provider before it reads the deny-list
validate_party_provider_first(gate, role, address, response) ==
    LET Rejected(reason, error, queried) ==
            [error |-> error,
             party |-> CompliancePartyRecord(gate, role, address, "denied", Some(reason)),
             queried |-> queried]
        Accepted(queried) ==
            [error |-> Passed,
             party |-> CompliancePartyRecord(gate, role, address, "passed", None),
             queried |-> queried]
        Listed(queried) ==
            IF address \in gate.deny_list
            THEN Rejected("address is explicitly denied",
                          ComplianceFailed(<<role, "is denied by compliance policy">>),
                          queried)
            ELSE IF gate.allow_list # {} /\ address \notin gate.allow_list
            THEN Rejected("address is not in compliance allow-list",
                          ComplianceFailed(<<role, "is not in compliance allow-list">>),
                          queried)
            ELSE Accepted(queried)
    IN  IF gate.provider.tag = "lists" THEN Listed(FALSE)
        ELSE IF query_chainalysis(response, gate.provider).verdict = "Denied"
        THEN Rejected("status matches blocked policy",
                      ComplianceFailed(<<role, "failed provider screening">>), TRUE)
        ELSE Listed(TRUE)

\* validate_party(role, address): deny-list, allow-list, then the provider
validate_party(gate, role, address, response) ==
    LET Rejected(status, reason, error, queried) ==
            [error |-> error,
             party |-> CompliancePartyRecord(gate, role, address, status, Some(reason)),
             queried |-> queried]
        Accepted(status, reason, queried) ==
            [error |-> Passed,
             party |-> CompliancePartyRecord(gate, role, address, status, reason),
             queried |-> queried]
        Screened(q) ==
            CASE q.verdict = "Err" ->
                    Rejected("unknown", "chainalysis query failed", q.error, TRUE)
              [] q.verdict = "Allowed" ->
                    Accepted("passed", Some("chainalysis clear"), TRUE)
              [] q.verdict = "Denied" ->
                    Rejected("denied", "status matches blocked policy",
                             ComplianceFailed(<<role, "failed provider screening">>), TRUE)
              [] q.verdict = "Unknown" ->
                    IF gate.provider.fail_closed
                    THEN Rejected("denied", "unrecognized chainalysis response format",
                             ComplianceFailed(<<role, "screening result unresolved">>), TRUE)
                    ELSE Accepted("warn", Some("unrecognized chainalysis response format"),
                                  TRUE)
    IN  IF address \in gate.deny_list
        THEN Rejected("denied", "address is explicitly denied",
                      ComplianceFailed(<<role, "is denied by compliance policy">>), FALSE)
        ELSE IF gate.allow_list # {} /\ address \notin gate.allow_list
        THEN Rejected("denied", "address is not in compliance allow-list",
                      ComplianceFailed(<<role, "is not in compliance allow-list">>), FALSE)
        ELSE IF gate.provider.tag = "lists"
        THEN Accepted("passed", None, FALSE)
        ELSE Screened(query_chainalysis(response, gate.provider))

\* record_audit: one line appended to the audit log, when a log is configured (the
\* file system is taken to work)
record_audit(gate, log, event) ==
    IF gate.audit_log_path = None THEN log
    ELSE Append(log, event)

\* ComplianceAuditEvent of a compliance check
ComplianceAuditEvent(gate, request_type, outcome, payer, payee, reason, parties) ==
    [event_type |-> "compliance_check",
     outcome |-> outcome,
     parties |-> parties,
     payee |-> payee,
     payer |-> payer,
     provider |-> provider_name(gate),
     reason |-> reason,
     request_type |-> request_type]
\* Option<&str>::map(str::to_lowercase)
lowered(party) == IF IsSome(party) THEN Some(to_lowercase(Unwrap(party))) ELSE None

\* validate_for_request with the gate enabled: the payer, then the payee; the result,
\* the audit events handed to record_audit and the remote queries made
screen_parties(gate, request_type, payer, payee, responses) ==
    LET Returned(answer, events, queries) ==
            [events |-> events,
             queries |-> queries,
             result |-> answer]
        Asked(r, response) ==
            IF r.queried THEN <<[address |-> r.party.address,
                                 response |-> response]>>
            ELSE <<>>
        Allowed(party_records, queries) ==
            Returned(Passed,
                     <<ComplianceAuditEvent(gate, request_type, "allowed", lowered(payer),
                           lowered(payee), None, party_records)>>,
                     queries)
        PayeeChecked(party_records, queries, payee_normalized, r) ==
            IF r.error # Passed
            THEN Returned(r.error,
                          <<ComplianceAuditEvent(gate, request_type, "denied",
                                lowered(payer), Some(payee_normalized), Some(r.error.msg),
                                party_records \o <<r.party>>)>>,
                          queries \o Asked(r, responses.payee))
            ELSE Allowed(party_records \o <<r.party>>, queries \o Asked(r, responses.payee))
        Payee(party_records, queries) ==
            IF payee = None THEN Allowed(party_records, queries)
            ELSE IF normalize_address(Unwrap(payee)) = None
            THEN Returned(ComplianceFailed(<<"payee", "has an invalid address format">>),
                          <<>>, queries)
            ELSE PayeeChecked(party_records, queries,
                     Unwrap(normalize_address(Unwrap(payee))),
                     validate_party(gate, "payee",
                         Unwrap(normalize_address(Unwrap(payee))), responses.payee))
        PayerChecked(payer_normalized, r) ==
            IF r.error # Passed
            THEN Returned(r.error,
                          <<ComplianceAuditEvent(gate, request_type, "denied",
                                Some(payer_normalized), lowered(payee), Some(r.error.msg),
                                <<r.party>>)>>,
                          Asked(r, responses.payer))
            ELSE Payee(<<r.party>>, Asked(r, responses.payer))
    IN  IF payer = None THEN Payee(<<>>, <<>>)
        ELSE IF normalize_address(Unwrap(payer)) = None
        THEN Returned(ComplianceFailed(<<"payer", "has an invalid address format">>),
                      <<>>, <<>>)
        ELSE PayerChecked(Unwrap(normalize_address(Unwrap(payer))),
                 validate_party(gate, "payer",
                     Unwrap(normalize_address(Unwrap(payer))), responses.payer))

\* validate_for_request that screens whether the gate is enabled or not
validate_for_request_always_screening(gate, request_type, payer, payee, responses) ==
    screen_parties(gate, request_type, payer, payee, responses)
\* validate_for_request: a disabled gate records "disabled" and returns Ok
validate_for_request(gate, request_type, payer, payee, responses) ==
    IF ~gate.enabled
    THEN [events |-> <<ComplianceAuditEvent(gate, request_type, "disabled",
                           lowered(payer), lowered(payee), Some("compliance disabled"),
                           <<>>)>>,
          queries |-> <<>>,
          result |-> Passed]
    ELSE screen_parties(gate, request_type, payer, payee, responses)

\* parse_address_list: the entries that normalize, normalized
parse_address_list(raw) ==
    {Unwrap(normalize_address(a)) : a \in {b \in raw : IsSome(normalize_address(b))}}
\* ComplianceGate::from_env: an enabled gate whose lists hold an invalid address is
\* refused
from_env(enabled, raw_deny, raw_allow, provider, audit_log_path) ==
    IF enabled /\ \E a \in parse_address_list(raw_deny) \cup parse_address_list(raw_allow) :
                      ~is_valid_address(a)
    THEN None
    ELSE Some(ComplianceGate(enabled, parse_address_list(raw_deny),
                             parse_address_list(raw_allow), provider, audit_log_path))
\* ComplianceGate::disabled
disabled == ComplianceGate(FALSE, {}, {}, Lists, None)

\* the addresses the requests and the lists are drawn from
Rep(ch, n) == [i \in 1..n |-> ch]
AddrA == <<"0", "x">> \o Rep("a", 40)
AddrB == <<"0", "x">> \o Rep("b", 40)
PayerInputs ==
    {None, Some(AddrA),
     Some(<<" ", "0", "X">> \o Rep("A", 40) \o <<" ">>),
     Some(Rep("a", 40)),
     Some(<<"0", "x">> \o Rep("a", 39)),
     Some(<<"0", "x">> \o Rep("z", 40))}
PayeeInputs ==
    {None, Some(<<"0", "x">> \o Rep("B", 40)), Some(<<"0", "x">> \o Rep("b", 41))}
Responses == {"failed", "blocked", "clear", "unrecognized"}
\* the gates the facilitator may run with (from_env refuses the last raw deny-list)
Gates ==
    {Unwrap(g) :
        g \in {from_env(TRUE, raw_deny, {}, provider, Some("audit.log")) :
                  raw_deny \in {{}, {<<"0", "X">> \o Rep("A", 40)},
                                {<<"0", "x">> \o Rep("z", 40)}},
                  provider \in {Lists, Chainalysis(TRUE), Chainalysis(FALSE)}} \ {None}}
    \cup {Unwrap(from_env(TRUE, {}, {AddrA}, Lists, Some("audit.log"))),
          Unwrap(from_env(TRUE, {AddrA}, {Rep("a", 40), AddrB, Rep("z", 7)}, Lists,
                          Some("audit.log"))),
          Unwrap(from_env(TRUE, {AddrB}, {}, Chainalysis(TRUE), Some("audit.log"))),
          Unwrap(from_env(TRUE, {AddrA}, {}, Lists, None)),
          disabled,
          Unwrap(from_env(FALSE, {AddrA, <<"0", "x">> \o Rep("z", 40)}, {AddrB},
                          Chainalysis(TRUE), Some("audit.log")))}

\* the Permit2 call builder, the chain id functions and the concurrent settlements
\* untouched
CoerceAtRest ==
    /\ wpayment = <<>>
    /\ wbuilt = Coerced(<<>>)
    /\ wresult = Coerced(<<>>)
    /\ wtxs = <<>>
    /\ wpc = "idle"
ChainIdAtRest ==
    /\ kpc = "idle"
    /\ kinput = <<>>
    /\ kchain = <<>>
    /\ kpattern = <<>>
    /\ korigin = None
    /\ kparsed = <<>>
    /\ kmatched = FALSE
RaceAtRest ==
    /\ rtasks = <<>>
    /\ rreq = None
    /\ rchain = <<>>
    /\ rpool = <<>>
    /\ rtxs = <<>>
OthersAtRest == CoerceAtRest /\ ChainIdAtRest /\ RaceAtRest

\* the compliance gate untouched
GateAtRest ==
    /\ gconf = disabled
    /\ gaudit = <<>>
    /\ gemitted = <<>>
    /\ gqueries = <<>>
    /\ gpc = "idle"
    /\ greq = None
    /\ gres = Passed
    /\ grpc = 0
    /\ gserved = 0

\* the nonce manager untouched
NonceAtRest ==
    /\ nstate = FreshNonceState
    /\ npending = 0
    /\ ntasks = [t \in Tasks |-> IdleTask]
    /\ nlog = <<>>

\* the classifier's variables at rest
NoBytes == [digest |-> <<>>,
            fmt |-> "bytes",
            key |-> "",
            len |-> 0]
Unclassified == [tag |-> ""]

NoResult == [err |-> "",
             msg |-> "",
             payer |-> "",
             status |-> "none",
             transaction |-> None]
Failure(e, msg) == [err |-> e,
                    msg |-> msg,
                    payer |-> "",
                    status |-> "error",
                    transaction |-> None]
Valid(payer) == [err |-> "",
                 msg |-> "",
                 payer |-> payer,
                 status |-> "valid",
                 transaction |-> None]
Success(payer, tx_hash) == [err |-> "",
                            msg |-> "",
                            payer |-> payer,
                            status |-> "settled",
                            transaction |-> Some(tx_hash)]
\* a reverted transaction reported as a settlement
reverted_reported_settled(tx_hash) == [err |-> "",
                                       msg |-> "",
                                       payer |-> "",
                                       status |-> "settled",
                                       transaction |-> Some(tx_hash)]

\* Eip155ExactError::TransactionReverted(TxHash)
TransactionReverted(tx_hash) == [err |-> "TransactionReverted",
                                 msg |-> "",
                                 payer |-> "",
                                 status |-> "error",
                                 transaction |-> Some(tx_hash)]

Send(meta, signer, status) ==
    [calls |-> <<meta.calldata>>,
     kind |-> "send"]
Tx(meta, signer, receipt) ==
    [calldata |-> meta.calldata,
     from |-> signer,
     status |-> receipt.status,
     to |-> meta.to,
     transaction_hash |-> receipt.transaction_hash]
PreflightReads(reads) == [i \in 1..Len(reads) |-> Read(reads[i])]

\* the payer and the wallet hold BBT and have approved Permit2 for MaxAmount
InitChain(id, payer_balance) ==
    [balance |-> [t \in Tokens |-> [h \in Holders |->
                    IF t = Token /\ h = Payer THEN payer_balance
                    ELSE IF t = Token /\ h = Wallet THEN MaxAmount + 1
                    ELSE 0]],
     deployed |-> {},
     erc20Allow |-> [t \in Tokens |-> [o \in Owners |->
                    IF t = Token THEN MaxAmount ELSE 0]],
     id |-> id,
     p2Allow |-> [t \in Tokens |-> [sp \in Spenders |->
                    [amount |-> 0, expiration |-> 0, nonce |-> 0]]],
     signerNonce |-> [sg \in signer_addresses |-> 0],
     usedAuth |-> {},
     usedP2 |-> {}]

Init ==
    /\ now = 1
    /\ chain \in {InitChain(ProviderChain, MaxAmount + 1),
                 InitChain(ProviderChain, RequiredAmount),
                 InitChain(ProviderChain, 1),
                 InitChain(OtherChain, MaxAmount + 1)}
    /\ pc = "idle"
    /\ req = None
    /\ ctx = None
    /\ result = NoResult
    /\ rpcLog = <<>>
    /\ txs = <<>>
    /\ served = 0
    /\ tnow = 0 /\ targs = <<0, 0>> /\ tres = <<"", "", "">>
    /\ sbytes = NoBytes /\ sexpected = "" /\ sprehash = <<>>
    /\ sedit = "none" /\ sres = Unclassified
    /\ NonceAtRest
    /\ GateAtRest
    /\ OthersAtRest

\* a verify or settle request arrives
Receive(r) ==
    /\ pc = "idle"
    /\ served < MaxRequests
    /\ pc' = "received"
    /\ req' = Some(r)
    /\ UNCHANGED <<now, chain, ctx, result, rpcLog, txs, served,
                   timeVars, sigVars, nonceVars, gateVars,
                   coerceVars, chainIdVars, raceVars>>
\* pre-flight called without the facilitator's signer addresses (allowed_spenders = None)
assert_valid_payment_any_spender(c, t, r) ==
    IF r.version = 1
    THEN assert_valid_payment_v1(c, t, c.id, r.payload, r.requirements, None)
    ELSE assert_valid_payment_v2(c, t, c.id, r.payload, r.requirements, None)

\* assert_valid_payment of the request's protocol version, with the provider's chain
\* and signer addresses
assert_valid_payment(c, t, r) ==
    IF r.version = 1
    THEN assert_valid_payment_v1(c, t, c.id, r.payload, r.requirements,
                                 Some(signer_addresses))
    ELSE assert_valid_payment_v2(c, t, c.id, r.payload, r.requirements,
                                 Some(signer_addresses))

\* a handler that goes on whatever assert_valid_payment returned
preflight_passed_always(res) == TRUE

\* the `?` after assert_valid_payment(...).await: the handler goes on only with a context
preflight_passed(res) == IsSome(res.ctx)

\* verify and settle both start with assert_valid_payment(...).await?
Preflight ==
    /\ pc = "received"
    /\ LET Returned(res) ==
               /\ rpcLog' = PreflightReads(res.reads)
               /\ ctx' = res.ctx
               /\ IF preflight_passed(res)
                  THEN pc' = "validated" /\ result' = result
                  ELSE pc' = "done" /\ result' = Failure(res.err, res.msg)
       IN  Returned(assert_valid_payment(chain, now, Unwrap(req)))
    /\ UNCHANGED <<now, chain, req, txs, served, timeVars, sigVars, nonceVars, gateVars,
                   coerceVars, chainIdVars, raceVars>>

\* the simulation of the verify handler for the context's branch
verify_context(c, t, context) ==
    CASE context.tag = "Eip3009" ->
            verify_payment(c, t, context.contract, context.payment, context.domain)
      [] context.tag = "Permit2" ->
            verify_payment_permit2(c, t, context.contract, context.payment, context.domain)
      [] context.tag = "Permit2Witness" ->
            verify_payment_permit2_witness(c, t, context.contract, context.payment,
                                           context.domain)

\* verify, after pre-flight: simulate and answer
Verify ==
    /\ pc = "validated"
    /\ Unwrap(req).kind = "verify"
    /\ LET Answered(v) ==
               /\ chain' = v.c
               /\ rpcLog' = rpcLog \o v.rpc
               /\ result' = IF v.err = "" THEN Valid(v.payer) ELSE Failure(v.err, v.msg)
       IN  Answered(verify_context(chain, now, Unwrap(ctx)))
    /\ pc' = "done"
    /\ UNCHANGED <<now, req, ctx, txs, served, timeVars, sigVars, nonceVars, gateVars,
                   coerceVars, chainIdVars, raceVars>>

\* settle, after pre-flight, ERC-3009 branch: settle_payment
SettleEip3009 ==
    /\ pc = "validated"
    /\ Unwrap(req).kind = "settle"
    /\ Unwrap(ctx).tag = "Eip3009"
    /\ LET context == Unwrap(ctx)
           Sent(m, meta, sent) ==
               /\ chain' = sent.c
               /\ txs' = Append(txs, Tx(meta, Signers[1], sent))
               /\ rpcLog' = rpcLog \o m.rpc \o <<Send(meta, Signers[1], sent.status)>>
               /\ result' = IF sent.status
                            THEN Success(context.payment.from, sent.transaction_hash)
                            ELSE TransactionReverted(sent.transaction_hash)
           Built(m) ==
               IF m.err # ""
               THEN /\ result' = Failure(m.err, "")
                    /\ rpcLog' = rpcLog \o m.rpc
                    /\ UNCHANGED <<chain, txs>>
               ELSE Sent(m, Unwrap(m.meta), send_transaction(chain, now, Unwrap(m.meta)))
       IN  Built(settle_payment_meta(chain, context.contract, context.payment,
                                     context.domain))
    /\ pc' = "done"
    /\ UNCHANGED <<now, req, ctx, served, timeVars, sigVars, nonceVars, gateVars,
                   coerceVars, chainIdVars, raceVars>>

\* settle, after pre-flight, Permit2 witness branch: settle_payment_permit2_witness
SettlePermit2Witness ==
    /\ pc = "validated"
    /\ Unwrap(req).kind = "settle"
    /\ Unwrap(ctx).tag = "Permit2Witness"
    /\ LET context == Unwrap(ctx)
           meta == settle_payment_permit2_witness_meta(context.contract, context.payment)
           Sent(sent) ==
               /\ chain' = sent.c
               /\ txs' = Append(txs, Tx(meta, Signers[1], sent))
               /\ rpcLog' = Append(rpcLog, Send(meta, Signers[1], sent.status))
               /\ result' = IF sent.status
                            THEN Success(context.payment.from, sent.transaction_hash)
                            ELSE TransactionReverted(sent.transaction_hash)
       IN  Sent(send_transaction(chain, now, meta))
    /\ pc' = "done"
    /\ UNCHANGED <<now, req, ctx, served, timeVars, sigVars, nonceVars, gateVars,
                   coerceVars, chainIdVars, raceVars>>

\* settle, after pre-flight, Permit2 branch, first transaction: IPermit2.permit
SettlePermit2Permit ==
    /\ pc = "validated"
    /\ Unwrap(req).kind = "settle"
    /\ Unwrap(ctx).tag = "Permit2"
    /\ LET context == Unwrap(ctx)
           meta == settle_payment_permit2_permit_meta(context.contract, context.payment)
           signer == context.payment.spender
           Sent(sent) ==
               /\ chain' = sent.c
               /\ txs' = Append(txs, Tx(meta, signer, sent))
               /\ rpcLog' = Append(rpcLog, Send(meta, signer, sent.status))
               /\ IF sent.status
                  THEN pc' = "permit_sent" /\ result' = result
                  ELSE pc' = "done" /\ result' = TransactionReverted(sent.transaction_hash)
       IN  Sent(send_transaction_from(chain, now, meta, signer))
    /\ UNCHANGED <<now, req, ctx, served, timeVars, sigVars, nonceVars, gateVars,
                   coerceVars, chainIdVars, raceVars>>

\* settle, Permit2 branch, second transaction: IPermit2.transferFrom
SettlePermit2Transfer ==
    /\ pc = "permit_sent"
    /\ LET context == Unwrap(ctx)
           meta == settle_payment_permit2_transfer_meta(context.contract, context.payment)
           signer == context.payment.spender
           Sent(sent) ==
               /\ chain' = sent.c
               /\ txs' = Append(txs, Tx(meta, signer, sent))
               /\ rpcLog' = Append(rpcLog, Send(meta, signer, sent.status))
               /\ result' = IF sent.status
                            THEN Success(context.payment.owner, sent.transaction_hash)
                            ELSE TransactionReverted(sent.transaction_hash)
       IN  Sent(send_transaction_from(chain, now, meta, signer))
    /\ pc' = "done"
    /\ UNCHANGED <<now, req, ctx, served, timeVars, sigVars, nonceVars, gateVars,
                   coerceVars, chainIdVars, raceVars>>

\* the response leaves; the facilitator keeps nothing of the request
Respond ==
    /\ pc = "done"
    /\ pc' = "idle"
    /\ served' = served + 1
    /\ req' = None
    /\ ctx' = None
    /\ result' = NoResult
    /\ rpcLog' = <<>>
    /\ txs' = <<>>
    /\ UNCHANGED <<now, chain, timeVars, sigVars, nonceVars, gateVars,
                   coerceVars, chainIdVars, raceVars>>

\* time passes between requests and while a handler awaits
Tick ==
    /\ now < MaxNow
    /\ pc \in {"idle", "validated", "permit_sent"}
    /\ now' = now + 1
    /\ UNCHANGED <<chain, pc, req, ctx, result, rpcLog, txs, served,
                   timeVars, sigVars, nonceVars, gateVars,
                   coerceVars, chainIdVars, raceVars>>

Next ==
    \/ \E r \in Requests : Receive(r)
    \/ Preflight
    \/ Verify
    \/ SettleEip3009
    \/ SettlePermit2Witness
    \/ SettlePermit2Permit
    \/ SettlePermit2Transfer
    \/ Respond
    \/ Tick

Spec == Init /\ [][Next]_vars

(***************************************************************************)
(* The time predicates on their own: a clock value and two timestamps are  *)
(* chosen, then each predicate is evaluated on them.                       *)
(*   tnow   the value of UnixTimestamp::now()                              *)
(*   targs  the two arguments, in the predicate's parameter order          *)
(*   tres   the results of assert_time, assert_permit2_time and            *)
(*          assert_permit2_witness_time ("" = not evaluated yet)           *)
(***************************************************************************)
Timestamps == 0..(MaxTime + 7)

InitTime ==
    /\ now = 1
    /\ chain = InitChain(ProviderChain, MaxAmount + 1)
    /\ pc = "idle"
    /\ req = None
    /\ ctx = None
    /\ result = NoResult
    /\ rpcLog = <<>>
    /\ txs = <<>>
    /\ served = 0
    /\ tnow \in 0..MaxTime
    /\ targs \in Timestamps \X Timestamps
    /\ tres = <<"", "", "">>
    /\ sbytes = NoBytes /\ sexpected = "" /\ sprehash = <<>>
    /\ sedit = "none" /\ sres = Unclassified
    /\ NonceAtRest
    /\ GateAtRest
    /\ OthersAtRest

\* assert_time(valid_after, valid_before)
CheckTime ==
    /\ tres[1] = ""
    /\ tres' = [tres EXCEPT ![1] = assert_time(tnow, targs[1], targs[2])]
    /\ UNCHANGED <<tnow, targs, requestVars, sigVars, nonceVars, gateVars,
                   coerceVars, chainIdVars, raceVars>>

\* assert_permit2_time(sig_deadline, expiration)
CheckPermit2Time ==
    /\ tres[2] = ""
    /\ tres' = [tres EXCEPT ![2] = assert_permit2_time(tnow, targs[1], targs[2])]
    /\ UNCHANGED <<tnow, targs, requestVars, sigVars, nonceVars, gateVars,
                   coerceVars, chainIdVars, raceVars>>

\* assert_permit2_witness_time(deadline, valid_after)
CheckPermit2WitnessTime ==
    /\ tres[3] = ""
    /\ tres' = [tres EXCEPT ![3] = assert_permit2_witness_time(tnow, targs[1], targs[2])]
    /\ UNCHANGED <<tnow, targs, requestVars, sigVars, nonceVars, gateVars,
                   coerceVars, chainIdVars, raceVars>>

NextTime == CheckTime \/ CheckPermit2Time \/ CheckPermit2WitnessTime

SpecTime == InitTime /\ [][NextTime]_vars

(***************************************************************************)
(* Properties of the time predicates.                                      *)
(***************************************************************************)
\* C8: assert_time at time tnow returns Ok exactly for the windows with
\* valid_after <= tnow and valid_before >= tnow + 6; it returns Expired whenever
\* valid_before < tnow + 6 (also when the window is early as well) and Early when
\* only valid_after > tnow; so valid_after = T+1 gives Early, valid_before = T+5
\* gives Expired, and (T, T+7) gives Ok.
C8_AssertTimeWindow ==
    tres[1] # "" =>
        LET valid_after == targs[1]
            valid_before == targs[2]
        IN  /\ (tres[1] = "Ok") <=> (valid_after <= tnow /\ valid_before >= tnow + 6)
            /\ (valid_before < tnow + 6) => tres[1] = "Expired"
            /\ (valid_before >= tnow + 6 /\ valid_after > tnow) => tres[1] = "Early"
            /\ (valid_after = tnow + 1 /\ valid_before >= tnow + 6) => tres[1] = "Early"
            /\ (valid_before = tnow + 5) => tres[1] = "Expired"
            /\ (valid_after = tnow /\ valid_before = tnow + 7) => tres[1] = "Ok"

\* a window that is both early and expired was judged Expired
C8_Witness ==
    /\ tres[1] = "Expired"
    /\ targs[1] > tnow
    /\ targs[2] = tnow + 5

\* C9: assert_permit2_time returns Ok exactly when sig_deadline >= tnow + 6 and
\* expiration >= tnow + 6, and Expired otherwise; assert_permit2_witness_time returns
\* Ok exactly when deadline >= tnow + 6 and valid_after <= tnow, Expired when the
\* deadline fails, and Early when only the lower bound fails.
C9_Permit2TimeWindows ==
    /\ tres[2] # "" =>
        LET sig_deadline == targs[1]
            expiration == targs[2]
        IN  /\ (tres[2] = "Ok") <=> (sig_deadline >= tnow + 6 /\ expiration >= tnow + 6)
            /\ tres[2] \in {"Ok", "Expired"}
    /\ tres[3] # "" =>
        LET deadline == targs[1]
            valid_after == targs[2]
        IN  /\ (tres[3] = "Ok") <=> (deadline >= tnow + 6 /\ valid_after <= tnow)
            /\ (deadline < tnow + 6) => tres[3] = "Expired"
            /\ (deadline >= tnow + 6 /\ valid_after > tnow) => tres[3] = "Early"

\* an allowance expiring inside the grace was judged Expired, and the same pair read
\* as (deadline, valid_after) was judged Early
C9_Witness ==
    /\ tres[2] = "Expired"
    /\ targs[1] >= tnow + 6
    /\ targs[2] = tnow + 5
    /\ tres[3] = "Early"

(***************************************************************************)
(* Vocabulary of the request properties.                                   *)
(***************************************************************************)
InFlight == pc # "idle"
Cur == Unwrap(req)
Inner == Cur.payload.payload
Required == Cur.requirements.max_amount_required

\* the part of the payload the branch selection picks
Branch ==
    IF IsSome(Inner.permit2_authorization) THEN "Permit2Witness"
    ELSE IF IsSome(Inner.permit2) THEN "Permit2"
    ELSE IF IsSome(Inner.authorization) THEN "Eip3009"
    ELSE "None"

\* the amount that part authorizes (-1 when the payload has no part)
BranchAmount ==
    CASE Branch = "Permit2Witness" -> Unwrap(Inner.permit2_authorization).permitted.amount
      [] Branch = "Permit2" -> Unwrap(Inner.permit2).permit_single.details.amount
      [] Branch = "Eip3009" -> Unwrap(Inner.authorization).value
      [] OTHER -> -1

\* the amount a PaymentContext authorizes
ContextAmount(context) ==
    IF context.tag = "Eip3009" THEN context.payment.value ELSE context.payment.amount

\* the calls an RPC operation or a transaction carries, aggregate3 items unpacked
Unpacked(call) ==
    IF call.fn = "aggregate3"
    THEN {call.args.calls[i].call : i \in 1..Len(call.args.calls)}
    ELSE {call}
CallsOf(entry) == UNION {Unpacked(entry.calls[i]) : i \in 1..Len(entry.calls)}

\* the amounts a call would authorize or move
AmountsOf(call) ==
    CASE call.fn \in {"transferWithAuthorization_0", "transferWithAuthorization_1"} ->
            {call.args.value}
      [] call.fn = "settle" -> {call.args.permit.permitted.amount}
      [] call.fn = "permit" -> {call.args.permitSingle.details.amount}
      [] call.fn = "transferFrom" -> {call.args.amount}
      [] OTHER -> {}

\* the addresses a call would pay
RecipientsOf(call) ==
    CASE call.fn \in {"transferWithAuthorization_0", "transferWithAuthorization_1"} ->
            {call.args.to}
      [] call.fn = "settle" -> {call.args.witness.to}
      [] call.fn = "transferFrom" -> {call.args.to}
      [] OTHER -> {}

Simulations == {i \in 1..Len(rpcLog) : rpcLog[i].kind \in {"eth_call", "multicall"}}
Submissions == {i \in 1..Len(rpcLog) : rpcLog[i].kind = "send"}

C2_FundsOnlyToPayTo ==
    /\ [](InFlight =>
            \A i \in 1..Len(txs) :
                \A call \in Unpacked(txs[i].calldata) :
                    RecipientsOf(call) \subseteq {Cur.requirements.pay_to})
    /\ [][Len(txs') > Len(txs) =>
            \A t \in Tokens : \A h \in Holders \ {Cur.requirements.pay_to} :
                chain'.balance[t][h] <= chain.balance[t][h]]_vars

\* the two transactions of a Permit2 settlement are mined and pay_to holds the amount
C2_Witness ==
    /\ pc = "done"
    /\ Len(txs) = 2
    /\ txs[2].calldata.fn = "transferFrom"
    /\ txs[2].status
    /\ chain.balance[Token][Cur.requirements.pay_to] >= RequiredAmount

\* C3: within one settle request no transaction is sent unless assert_valid_payment
\* returned a PaymentContext earlier in that request: the handler is past pre-flight
\* only with a context, every transaction and every submission in the log belongs to
\* a settle request holding one, and a request that pre-flight turned away ends as an
\* error with no transaction.
C3_NoTransactionWithoutContext ==
    InFlight =>
        /\ pc \in {"validated", "permit_sent"} => IsSome(ctx)
        /\ (txs # <<>> \/ Submissions # {}) => IsSome(ctx) /\ Cur.kind = "settle"
        /\ (pc = "done" /\ ctx = None) =>
              /\ result.status = "error"
              /\ txs = <<>>
              /\ Submissions = {}

\* a settle request was turned away by pre-flight after an earlier one was settled
C3_Witness ==
    /\ pc = "done"
    /\ Cur.kind = "settle"
    /\ ctx = None
    /\ result.err = "RecipientMismatch"
    /\ txs = <<>>
    /\ chain.signerNonce[Signers[1]] > 0

\* C4: for every transaction settle submits, the verifier's simulation of that
\* settlement (an eth_call or a Multicall3 simulation) ran beforehand in the same
\* request.
C4_SimulationBeforeSubmission ==
    InFlight =>
        \A i \in Submissions : \E j \in Simulations : j < i

\* a settle request submitted a transaction that reverted, and nothing was simulated
C4_Witness ==
    /\ pc = "done"
    /\ Cur.kind = "settle"
    /\ Len(txs) = 1
    /\ ~txs[1].status
    /\ Simulations = {}
    /\ result.err = "TransactionReverted"

\* C5: verify never changes on-chain state: while a verify request is in flight no
\* step changes balances, allowances, used nonces, deployed code or the signers'
\* transaction nonces, and no transaction is submitted.
C5_VerifyChangesNothing ==
    [][(InFlight /\ Cur.kind = "verify") =>
          /\ chain' = chain
          /\ txs' = <<>>
          /\ \A i \in 1..Len(rpcLog') : rpcLog'[i].kind # "send"]_vars

\* a verify request that simulated a Permit2 permit and transfer was answered valid
C5_Witness ==
    /\ pc = "done"
    /\ Cur.kind = "verify"
    /\ result.status = "valid"
    /\ Unwrap(ctx).tag = "Permit2"
    /\ Cardinality(Simulations) = 2
    /\ chain.balance[Token][Payer] = MaxAmount + 1

\* the network name of Etherlink, the only name that resolves to a chain
ProviderNetworkName == "etherlink"

\* the checks that come before branch selection pass
BindingOk ==
    IF Cur.version = 1
    THEN /\ Cur.payload.network = ProviderNetworkName
         /\ Cur.requirements.network = ProviderNetworkName
         /\ chain.id = ProviderChain
    ELSE /\ Cur.payload.accepted = Cur.requirements
         /\ Cur.requirements.network = chain.id
         /\ Cur.requirements.asset.chain \in {None, Some(chain.id)}

Asset == Cur.requirements.asset.address
PayTo == Cur.requirements.pay_to
TheAuthorization == Unwrap(Inner.authorization)
ThePermit2 == Unwrap(Inner.permit2)
TheWitnessAuthorization == Unwrap(Inner.permit2_authorization)

\* the checks of the selected branch that come before its amount check pass
ChecksBeforeAmountPass ==
    /\ BindingOk
    /\ CASE Branch = "Eip3009" ->
                /\ TheAuthorization.to = PayTo
                /\ TheAuthorization.valid_before >= now + 6
                /\ TheAuthorization.valid_after <= now
                /\ chain.balance[Asset][TheAuthorization.from] >= Required
         [] Branch = "Permit2" ->
                /\ ThePermit2.permit_single.details.token = Asset
                /\ ThePermit2.permit_single.spender \in signer_addresses
                /\ ThePermit2.permit_single.sig_deadline >= now + 6
                /\ ThePermit2.permit_single.details.expiration >= now + 6
         [] Branch = "Permit2Witness" ->
                /\ TheWitnessAuthorization.permitted.token = Asset
                /\ TheWitnessAuthorization.spender = X402_EXACT_PERMIT2_PROXY_ADDRESS
                /\ TheWitnessAuthorization.witness.to = PayTo
         [] OTHER -> FALSE

\* everything but the amount is valid: the payer is an account that signed the
\* authorization itself, inside its window, unused, covered by balance and allowance
AllElseValid ==
    /\ BindingOk
    /\ Cur.requirements.extra = None
    /\ CASE Branch = "Eip3009" ->
                /\ TheAuthorization.from = Payer
                /\ TheAuthorization.to = PayTo
                /\ TheAuthorization.valid_before >= now + 6
                /\ TheAuthorization.valid_after < now
                /\ chain.balance[Asset][Payer] >= Required
                /\ <<Payer, TheAuthorization.nonce>> \notin chain.usedAuth
                /\ Inner.signature =
                       Some(Sign(Payer, AuthorizationDigest(TheAuthorization)))
         [] Branch = "Permit2" ->
                /\ ThePermit2.permit_single.details.token = Asset
                /\ ThePermit2.permit_single.spender \in signer_addresses
                /\ ThePermit2.permit_single.sig_deadline >= now + 6
                /\ ThePermit2.permit_single.details.expiration >= now + 6
                /\ chain.balance[Asset][Payer] >= Required
                /\ chain.erc20Allow[Asset][Payer] >= Required
                /\ ThePermit2.signature.key = Payer
                /\ ThePermit2.permit_single.details.nonce =
                       chain.p2Allow[Asset][ThePermit2.permit_single.spender].nonce
         [] Branch = "Permit2Witness" ->
                /\ TheWitnessAuthorization.from = Payer
                /\ TheWitnessAuthorization.permitted.token = Asset
                /\ TheWitnessAuthorization.spender = X402_EXACT_PERMIT2_PROXY_ADDRESS
                /\ TheWitnessAuthorization.witness.to = PayTo
                /\ TheWitnessAuthorization.deadline >= now + 6
                /\ TheWitnessAuthorization.witness.valid_after <= now
                /\ chain.balance[Asset][Payer] >= Required
                /\ chain.erc20Allow[Asset][Payer] >= Required
                /\ <<Payer, TheWitnessAuthorization.nonce>> \notin chain.usedP2
                /\ Inner.signature =
                       Some(Sign(Payer, WitnessDigest(TheWitnessAuthorization)))
         [] OTHER -> FALSE

BranchRecipientMismatch ==
    \/ Branch = "Eip3009" /\ TheAuthorization.to # PayTo
    \/ Branch = "Permit2Witness" /\ TheWitnessAuthorization.witness.to # PayTo

\* some authorization or witness of the payload names another recipient than pay_to
AnyRecipientMismatch ==
    \/ IsSome(Inner.authorization) /\ TheAuthorization.to # PayTo
    \/ IsSome(Inner.permit2_authorization) /\ TheWitnessAuthorization.witness.to # PayTo

\* the checks of the selected branch that come before its recipient check pass
ChecksBeforeRecipientPass ==
    /\ BindingOk
    /\ Branch = "Permit2Witness" =>
          /\ TheWitnessAuthorization.permitted.token = Asset
          /\ TheWitnessAuthorization.spender = X402_EXACT_PERMIT2_PROXY_ADDRESS

\* C7 as stated: any mismatch between authorization.to or witness.to and
\* requirements.pay_to makes verify and settle fail with RecipientMismatch.
C7_AnyMismatchIsRecipientMismatch ==
    pc = "done" => (AnyRecipientMismatch => result.err = "RecipientMismatch")

\* C7, amended: when the recipient named by the selected branch (authorization.to in
\* the ERC-3009 branch, witness.to in the Permit2Witness branch) differs from
\* requirements.pay_to, verify and settle fail and no transaction is sent; the error
\* is RecipientMismatch whenever the checks that come first pass (chain binding, and in
\* the Permit2Witness branch the asset and the proxy spender).
C7_RecipientLaw ==
    (InFlight /\ BranchRecipientMismatch) =>
        /\ ctx = None
        /\ txs = <<>>
        /\ pc = "done" =>
              /\ result.status = "error"
              /\ ChecksBeforeRecipientPass => result.err = "RecipientMismatch"

\* a settle request whose witness names another recipient was answered
\* RecipientMismatch
C7_Witness ==
    /\ pc = "done"
    /\ Cur.kind = "settle"
    /\ Branch = "Permit2Witness"
    /\ BranchRecipientMismatch
    /\ ChecksBeforeRecipientPass
    /\ result.err = "RecipientMismatch"

\* the facilitator's chain, the payload's network and the requirements' network are
\* one chain
ChainsAgree ==
    IF Cur.version = 1
    THEN /\ Cur.payload.network = ProviderNetworkName
         /\ Cur.requirements.network = ProviderNetworkName
         /\ chain.id = ProviderChain
    ELSE /\ Cur.payload.accepted.network = chain.id
         /\ Cur.requirements.network = chain.id

\* C10 as stated: whenever the three chains are not all the same, validation fails
\* with ChainIdMismatch before any branch is selected and any RPC read.
C10_AnyDisagreementIsChainIdMismatch ==
    pc = "done" =>
        (~ChainsAgree => result.err = "ChainIdMismatch" /\ ctx = None /\ rpcLog = <<>>)

\* C10, amended: when the chains are not all the same, validation fails before any
\* branch is selected and before any RPC read.  In V1 the error is ChainIdMismatch
\* when the network names resolve and the facilitator is on another chain, and
\* UnsupportedChain for a name that does not resolve (the payload's name is looked at
\* first); in V2 the error is ChainIdMismatch when accepted equals the requirements
\* (the comparison that comes first), also for an asset chain id that differs, and
\* AcceptedRequirementsMismatch when it does not.
C10_ChainBindingLaw ==
    pc = "done" =>
        /\ (~ChainsAgree \/ ~BindingOk) =>
              /\ result.status = "error"
              /\ ctx = None
              /\ rpcLog = <<>>
              /\ txs = <<>>
        /\ (Cur.version = 1 /\ ~ChainsAgree) =>
              result.err =
                  IF Cur.payload.network # ProviderNetworkName THEN "UnsupportedChain"
                  ELSE IF chain.id # ProviderChain THEN "ChainIdMismatch"
                  ELSE "UnsupportedChain"
        /\ Cur.version = 2 =>
              /\ Cur.payload.accepted # Cur.requirements =>
                    result.err = "AcceptedRequirementsMismatch"
              /\ (Cur.payload.accepted = Cur.requirements /\ ~BindingOk) =>
                    result.err = "ChainIdMismatch"

\* a facilitator connected to another chain answered a V1 request for Etherlink, with
\* a payload that is otherwise good, ChainIdMismatch without any read
C10_Witness ==
    /\ pc = "done"
    /\ Cur.version = 1
    /\ Cur.payload.network = ProviderNetworkName
    /\ Cur.requirements.network = ProviderNetworkName
    /\ chain.id # ProviderChain
    /\ result.err = "ChainIdMismatch"
    /\ rpcLog = <<>>

\* the PaymentContext was built from the part of the payload that Branch names
ContextFromBranch(context) ==
    CASE Branch = "Permit2Witness" ->
            /\ context.tag = "Permit2Witness"
            /\ context.payment.from = TheWitnessAuthorization.from
            /\ context.payment.pay_to = TheWitnessAuthorization.witness.to
            /\ context.payment.amount = TheWitnessAuthorization.permitted.amount
            /\ context.payment.spender = TheWitnessAuthorization.spender
      [] Branch = "Permit2" ->
            /\ context.tag = "Permit2"
            /\ context.payment.owner = ThePermit2.owner
            /\ context.payment.amount = ThePermit2.permit_single.details.amount
            /\ context.payment.spender = ThePermit2.permit_single.spender
      [] Branch = "Eip3009" ->
            /\ context.tag = "Eip3009"
            /\ context.payment.from = TheAuthorization.from
            /\ context.payment.to = TheAuthorization.to
            /\ context.payment.value = TheAuthorization.value
      [] OTHER -> FALSE

\* C11: branch selection is by fixed priority over the payload's optional fields:
\* permit2_authorization selects Permit2Witness whatever else is present, otherwise
\* permit2 selects Permit2, otherwise authorization selects ERC-3009; the
\* PaymentContext returned is of the selected branch's variant and built from that
\* part; a payload with none of the three, once chain binding has passed, is rejected
\* with InvalidFormat before any read.
C11_BranchPriority ==
    InFlight =>
        /\ IsSome(ctx) => ContextFromBranch(Unwrap(ctx))
        /\ (pc = "done" /\ BindingOk /\ Branch = "None") =>
              /\ ctx = None
              /\ result.status = "error"
              /\ result.err = "InvalidFormat"
              /\ rpcLog = <<>>

\* a payload carrying all three parts, whose authorization names another recipient
\* and another amount, got a Permit2Witness context
C11_Witness ==
    /\ InFlight
    /\ IsSome(Inner.permit2_authorization)
    /\ IsSome(Inner.permit2)
    /\ IsSome(Inner.authorization)
    /\ TheAuthorization.to # PayTo
    /\ TheAuthorization.value # Required
    /\ IsSome(ctx)
    /\ Unwrap(ctx).tag = "Permit2Witness"

\* the settle calls of the proxy that were simulated or submitted for the request
ProxySettleCalls ==
    {call \in UNION {CallsOf(rpcLog[i]) : i \in 1..Len(rpcLog)} : call.fn = "settle"}

\* the Permit2Witness branch is selected and its spender is not the configured proxy
WitnessSpenderIsNotProxy ==
    /\ Branch = "Permit2Witness"
    /\ TheWitnessAuthorization.spender # X402_EXACT_PERMIT2_PROXY_ADDRESS

\* C12 as stated: a Permit2Witness payload whose spender differs from the configured
\* proxy is rejected with InvalidFormat.
C12_AnyOtherSpenderIsInvalidFormat ==
    (pc = "done" /\ WitnessSpenderIsNotProxy) =>
        /\ result.status = "error"
        /\ result.err = "InvalidFormat"

\* C12, amended: a Permit2Witness payload whose spender differs from the configured
\* proxy is always rejected, before any read, simulation or transaction; the error is
\* InvalidFormat("permit2Authorization.spender must be the x402 Permit2 proxy") when
\* chain binding and the asset check that precede the spender check pass.  No
\* Permit2Witness context is built, and no proxy settle call is simulated or
\* submitted, with a spender other than the configured proxy.
C12_WitnessSpenderLaw ==
    InFlight =>
        /\ (pc = "done" /\ WitnessSpenderIsNotProxy) =>
              /\ result.status = "error"
              /\ ctx = None
              /\ rpcLog = <<>>
              /\ txs = <<>>
              /\ (BindingOk /\ TheWitnessAuthorization.permitted.token = Asset) =>
                    /\ result.err = "InvalidFormat"
                    /\ result.msg =
                           "permit2Authorization.spender must be the x402 Permit2 proxy"
        /\ (IsSome(ctx) /\ Unwrap(ctx).tag = "Permit2Witness") =>
              /\ Unwrap(ctx).payment.spender = X402_EXACT_PERMIT2_PROXY_ADDRESS
              /\ Unwrap(ctx).contract = X402_EXACT_PERMIT2_PROXY_ADDRESS
        /\ \A call \in ProxySettleCalls :
              /\ call.target = X402_EXACT_PERMIT2_PROXY_ADDRESS
              /\ IsSome(ctx)
              /\ Unwrap(ctx).payment.spender = X402_EXACT_PERMIT2_PROXY_ADDRESS

\* a Permit2Witness payload good in everything but its spender was answered with
\* the InvalidFormat of the spender check
C12_Witness ==
    /\ pc = "done"
    /\ WitnessSpenderIsNotProxy
    /\ BindingOk
    /\ TheWitnessAuthorization.permitted.token = Asset
    /\ TheWitnessAuthorization.witness.to = PayTo
    /\ TheWitnessAuthorization.permitted.amount = Required
    /\ result.err = "InvalidFormat"
    /\ result.msg = "permit2Authorization.spender must be the x402 Permit2 proxy"

\* the Permit2 branch is selected and its spender is not a signer of the facilitator
Permit2SpenderIsNotSigner ==
    /\ Branch = "Permit2"
    /\ ThePermit2.permit_single.spender \notin {Signers[i] : i \in 1..Len(Signers)}

\* C13 as stated: a Permit2 payload whose spender is not one of the facilitator's
\* signer addresses fails validation with RecipientMismatch.
C13_AnyOtherSpenderIsRecipientMismatch ==
    (pc = "done" /\ Permit2SpenderIsNotSigner) =>
        /\ result.status = "error"
        /\ result.err = "RecipientMismatch"

\* C13, amended: a Permit2 payload whose permit_single.spender is not one of the
\* facilitator's signer addresses is always rejected, before any read or transaction,
\* with RecipientMismatch when chain binding and the asset check that precede the
\* spender check pass; a Permit2 context carries a spender that is a signer of the
\* facilitator, and every permit and transferFrom transaction of a request is sent
\* from that spender, a signer the facilitator controls.
C13_Permit2SpenderLaw ==
    InFlight =>
        /\ (pc = "done" /\ Permit2SpenderIsNotSigner) =>
              /\ result.status = "error"
              /\ ctx = None
              /\ rpcLog = <<>>
              /\ txs = <<>>
              /\ (BindingOk /\ ThePermit2.permit_single.details.token = Asset) =>
                    result.err = "RecipientMismatch"
        /\ (IsSome(ctx) /\ Unwrap(ctx).tag = "Permit2") =>
              /\ Unwrap(ctx).payment.spender = ThePermit2.permit_single.spender
              /\ \E i \in 1..Len(Signers) : Unwrap(ctx).payment.spender = Signers[i]
        /\ \A i \in 1..Len(txs) :
              txs[i].calldata.fn \in {"permit", "transferFrom"} =>
                  /\ txs[i].from = ThePermit2.permit_single.spender
                  /\ \E j \in 1..Len(Signers) : txs[i].from = Signers[j]

\* both transactions of a Permit2 settlement were sent from the spender, a signer of
\* the facilitator
C13_Witness ==
    /\ pc = "done"
    /\ Branch = "Permit2"
    /\ Len(txs) = 2
    /\ txs[1].calldata.fn = "permit"
    /\ txs[2].calldata.fn = "transferFrom"
    /\ txs[1].from = ThePermit2.permit_single.spender
    /\ txs[2].from = ThePermit2.permit_single.spender
    /\ result.status = "settled"

(***************************************************************************)
(* The signature classifier on its own: signature bytes, an expected       *)
(* signer and a prehash are chosen and classified; a wrapped signature may *)
(* first lose its magic suffix or have a byte of it changed.               *)
(*   sbytes     the bytes handed to try_from_bytes                         *)
(*   sexpected  the expected signer                                        *)
(*   sprehash   the prehash                                                *)
(*   sedit      what was done to the chosen bytes: "none", "stripped" or   *)
(*              "mutated"                                                  *)
(*   sres       the result of try_from_bytes (Unclassified before)         *)
(***************************************************************************)
SigDigests ==
    {AuthorizationDigest(a) :
        a \in {WalletAuthorization,
               ExactEvmPayloadAuthorization(Payer, "R1", RequiredAmount, <<0, MaxNow + 6>>)}}

\* the ERC-2098 form of a signature
Compact(sig) == [digest |-> sig.digest,
                 fmt |-> "sig64",
                 key |-> sig.key]

\* `len` bytes of format "bytes" or "eip6492bad"
RawBytes(fmt, len, key, digest) == [digest |-> digest,
                                    fmt |-> fmt,
                                    key |-> key,
                                    len |-> len]

SigInputs ==
    LET Signatures == {Sign(k, d) : k \in {Payer, Mallory}, d \in SigDigests}
    IN  Signatures
        \cup {Compact(sig) : sig \in Signatures}
        \cup {RawBytes("bytes", 64, sig.key, sig.digest) : sig \in Signatures}
        \cup {RawBytes("bytes", len, "", <<>>) : len \in {0, 31, 65, 66}}
        \cup {RawBytes("eip6492bad", 64, sig.key, sig.digest) : sig \in Signatures}
        \cup {RawBytes("eip6492bad", len, "", <<>>) : len \in {32, 65, 96}}
        \cup {Wrap6492(inner) :
                inner \in Signatures
                          \cup {Wrap6492(sig) : sig \in Signatures}
                          \cup {RawBytes("bytes", 0, "", <<>>),
                                RawBytes("eip6492bad", 64, "", <<>>)}}

InitSig ==
    /\ now = 1
    /\ chain = InitChain(ProviderChain, MaxAmount + 1)
    /\ pc = "idle"
    /\ req = None
    /\ ctx = None
    /\ result = NoResult
    /\ rpcLog = <<>>
    /\ txs = <<>>
    /\ served = 0
    /\ tnow = 0 /\ targs = <<0, 0>> /\ tres = <<"", "", "">>
    /\ sbytes \in SigInputs
    /\ sexpected \in {Payer, Mallory, Wallet}
    /\ sprehash \in SigDigests
    /\ sedit = "none"
    /\ sres = Unclassified
    /\ NonceAtRest
    /\ GateAtRest
    /\ OthersAtRest

\* StructuredSignature::try_from_bytes(bytes, expected_signer, prehash)
Classify ==
    /\ sres = Unclassified
    /\ sres' = try_from_bytes(sbytes, sexpected, sprehash)
    /\ UNCHANGED <<sbytes, sexpected, sprehash, sedit, requestVars, timeVars, nonceVars, gateVars,
                   coerceVars, chainIdVars, raceVars>>

\* the magic suffix of a wrapped signature is removed
StripSuffix ==
    /\ sedit = "none"
    /\ sbytes.fmt = "eip6492"
    /\ sbytes' = Body(sbytes)
    /\ sedit' = "stripped"
    /\ sres' = Unclassified
    /\ UNCHANGED <<sexpected, sprehash, requestVars, timeVars, nonceVars, gateVars,
                   coerceVars, chainIdVars, raceVars>>

\* a byte of the magic suffix of a wrapped signature is changed
MutateSuffix ==
    /\ sedit = "none"
    /\ sbytes.fmt = "eip6492"
    /\ sbytes' = [fmt |-> "mutated",
                  of |-> sbytes]
    /\ sedit' = "mutated"
    /\ sres' = Unclassified
    /\ UNCHANGED <<sexpected, sprehash, requestVars, timeVars, nonceVars, gateVars,
                   coerceVars, chainIdVars, raceVars>>

NextSig == Classify \/ StripSuffix \/ MutateSuffix

SpecSig == InitSig /\ [][NextSig]_vars

(***************************************************************************)
(* Properties of the signature classifier.                                 *)
(***************************************************************************)
Classified == sres # Unclassified
\* read as an ECDSA signature, `bytes` recover `signer` from `prehash`
HoldsSignature(bytes) == bytes.fmt \in {"sig65", "sig64", "bytes", "eip6492bad"}
SignedBy(bytes, signer, prehash) ==
    /\ HoldsSignature(bytes)
    /\ bytes.key = signer
    /\ bytes.digest = prehash
EndsInMagic(bytes) ==
    ByteLen(bytes) >= 32 /\ Last32(bytes) = EIP6492_MAGIC_SUFFIX

\* C14: the 65-byte signature of a key over a digest, classified against that
\* key's address and that digest, is EOA; classified against any other expected
\* signer it is EIP1271; and no bytes are classified EOA unless they are 64 or 65
\* bytes long and the address they recover from the prehash is the expected signer.
C14_SignatureRoundTrip ==
    Classified =>
        /\ (sbytes.fmt = "sig65" /\ sbytes.digest = sprehash) =>
                sres.tag = (IF sbytes.key = sexpected THEN "EOA" ELSE "EIP1271")
        /\ sres.tag = "EOA" =>
                /\ ByteLen(sbytes) \in {64, 65}
                /\ SignedBy(sbytes, sexpected, sprehash)

C14_Witness ==
    /\ sbytes.fmt = "sig65"
    /\ SignedBy(sbytes, sexpected, sprehash)
    /\ sres.tag = "EOA"
    /\ sres.signature = sbytes

\* C15: bytes of at least 32 bytes that end in the magic suffix after an ABI
\* encoding of (address, bytes, bytes) are classified EIP6492, with the decoded
\* factory, calldata and inner signature and with `original` the whole input; bytes
\* that end in the magic suffix are never classified by ECDSA recovery, also when
\* they are 64 bytes that recover the expected signer; a magic suffix after a
\* prefix that does not decode is a format error; and a wrapped signature whose
\* suffix was removed or changed in a byte is classified EIP1271 or is a format
\* error.
C15_Eip6492Detection ==
    Classified =>
        /\ (sedit = "none" /\ sbytes.fmt = "eip6492") =>
                /\ sres.tag = "EIP6492"
                /\ sres.original = sbytes
                /\ sres.factory = sbytes.factory
                /\ sres.factory_calldata = sbytes.factory_calldata
                /\ sres.inner = sbytes.inner
        /\ EndsInMagic(sbytes) => sres.tag \in {"EIP6492", "FormatError"}
        /\ sbytes.fmt = "eip6492bad" => sres.tag = "FormatError"
        /\ sedit \in {"stripped", "mutated"} => sres.tag \in {"EIP1271", "FormatError"}

C15_Witness ==
    /\ sedit = "none"
    /\ EndsInMagic(sbytes)
    /\ sbytes.fmt = "eip6492"
    /\ sres.tag = "EIP6492"
    /\ sres.original = sbytes

(***************************************************************************)
(* Properties of verification and settlement with wrapped signatures.      *)
(***************************************************************************)
\* a verify request holds an ERC-3009 context whose signature is an EIP-6492 wrapper
WrappedEip3009(kind) ==
    /\ pc = "validated"
    /\ Cur.kind = kind
    /\ Unwrap(ctx).tag = "Eip3009"
    /\ Unwrap(ctx).payment.signature.fmt = "eip6492"

C17_CounterfactualDeployment ==
    [][(WrappedEip3009("settle") /\ pc' = "done") =>
          LET p == Unwrap(ctx).payment
              transfer ==
                  TransferWithAuthorization0Call(Unwrap(ctx).contract, p, p.signature.inner)
              entries ==
                  <<[allowFailure |-> TRUE,
                     call |-> [args |-> <<>>,
                               fn |-> p.signature.factory_calldata,
                               target |-> p.signature.factory]],
                    [allowFailure |-> FALSE,
                     call |-> transfer]>>
              sent == txs'[Len(txs')]
          IN  /\ Len(txs') = Len(txs) + 1
              /\ SubSeq(txs', 1, Len(txs)) = txs
              /\ sent.from = Signers[1]
              /\ IF p.from \in chain.deployed
                 THEN /\ sent.to = Unwrap(ctx).contract
                      /\ sent.calldata = transfer
                 ELSE /\ sent.to = MULTICALL3_ADDRESS
                      /\ sent.calldata.fn = "aggregate3"
                      /\ sent.calldata.args.calls = entries]_vars

\* a counterfactual wallet was deployed and paid by one aggregate3 transaction
C17_Witness ==
    /\ pc = "done"
    /\ Cur.kind = "settle"
    /\ IsSome(ctx)
    /\ Unwrap(ctx).tag = "Eip3009"
    /\ Unwrap(ctx).payment.signature.fmt = "eip6492"
    /\ Len(txs) = 1
    /\ txs[1].to = MULTICALL3_ADDRESS
    /\ Len(txs[1].calldata.args.calls) = 2
    /\ txs[1].status
    /\ Wallet \in chain.deployed

(***************************************************************************)
(* Properties of settlement.                                               *)
(***************************************************************************)
\* a settle request is in flight with a Permit2 context
SettlingPermit2 ==
    /\ InFlight
    /\ Cur.kind = "settle"
    /\ IsSome(ctx)
    /\ Unwrap(ctx).tag = "Permit2"

\* C18: a Permit2 settlement submits at most two transactions, both from the
\* payment's spender and to the Permit2 contract: first permit(owner, permitSingle,
\* signature), and then, only when the permit's receipt reports success,
\* transferFrom(owner, pay_to, amount, token).  When the permit reverts the request
\* fails with TransactionReverted holding the permit's transaction hash and no
\* transferFrom is submitted; a settled request has both receipts successful and
\* returns the hash of the transferFrom transaction, which is not the permit's.
C18_Permit2TwoStepSettlement ==
    SettlingPermit2 =>
        LET p == Unwrap(ctx).payment
        IN  /\ Len(txs) <= 2
            /\ pc = "validated" => Len(txs) = 0
            /\ pc = "permit_sent" => Len(txs) = 1 /\ txs[1].status
            /\ pc = "done" => Len(txs) >= 1
            /\ Len(txs) >= 1 =>
                  /\ txs[1].calldata.fn = "permit"
                  /\ txs[1].calldata.args.owner = p.owner
                  /\ txs[1].calldata.args.signature = p.signature
                  /\ txs[1].to = Unwrap(ctx).contract
                  /\ txs[1].from = p.spender
                  /\ (~txs[1].status) =>
                        /\ Len(txs) = 1
                        /\ pc = "done"
                        /\ result.err = "TransactionReverted"
                        /\ result.transaction = Some(txs[1].transaction_hash)
            /\ Len(txs) = 2 =>
                  /\ txs[1].status
                  /\ txs[2].calldata.fn = "transferFrom"
                  /\ txs[2].calldata.args = [amount |-> p.transfer_amount,
                                             from |-> p.owner,
                                             to |-> p.pay_to,
                                             token |-> p.token]
                  /\ txs[2].to = Unwrap(ctx).contract
                  /\ txs[2].from = p.spender
                  /\ txs[2].transaction_hash # txs[1].transaction_hash
                  /\ pc = "done"
            /\ result.status = "settled" =>
                  /\ Len(txs) = 2
                  /\ txs[2].status
                  /\ result.transaction = Some(txs[2].transaction_hash)

\* a Permit2 settlement whose permit and transferFrom both succeeded
C18_Witness ==
    /\ SettlingPermit2
    /\ result.status = "settled"
    /\ Len(txs) = 2
    /\ txs[1].calldata.fn = "permit"
    /\ txs[2].calldata.fn = "transferFrom"
    /\ result.transaction = Some(txs[2].transaction_hash)

NonceUsed ==
    CASE Branch = "Eip3009" ->
            <<TheAuthorization.from, TheAuthorization.nonce>> \in chain.usedAuth
      [] Branch = "Permit2Witness" ->
            <<TheWitnessAuthorization.from, TheWitnessAuthorization.nonce>> \in chain.usedP2
      [] Branch = "Permit2" ->
            /\ ThePermit2.permit_single.details.token \in Tokens
            /\ ThePermit2.permit_single.spender \in Spenders
            /\ ThePermit2.permit_single.details.nonce <
                   chain.p2Allow[ThePermit2.permit_single.details.token]
                                [ThePermit2.permit_single.spender].nonce
      [] OTHER -> FALSE

\* a settle request for an authorization that an earlier request settled: the nonce
\* is consumed and no transaction of this request succeeded
Resubmitted ==
    /\ InFlight
    /\ Cur.kind = "settle"
    /\ NonceUsed
    /\ \A i \in 1..Len(txs) : ~txs[i].status

\* the request in flight is a valid payment of the payer but for what the chain
\* holds: the payer's balance, the allowance and the nonce
OtherwiseValid ==
    /\ BindingOk
    /\ Cur.requirements.extra = None
    /\ BranchAmount = Required
    /\ CASE Branch = "Eip3009" ->
                /\ TheAuthorization.from = Payer
                /\ TheAuthorization.to = PayTo
                /\ TheAuthorization.valid_before >= now + 6
                /\ TheAuthorization.valid_after < now
                /\ Inner.signature =
                       Some(Sign(Payer, AuthorizationDigest(TheAuthorization)))
         [] Branch = "Permit2" ->
                /\ ThePermit2.permit_single.details.token = Asset
                /\ ThePermit2.permit_single.spender \in signer_addresses
                /\ ThePermit2.permit_single.sig_deadline >= now + 6
                /\ ThePermit2.permit_single.details.expiration >= now + 6
                /\ ThePermit2.signature.key = Payer
         [] Branch = "Permit2Witness" ->
                /\ TheWitnessAuthorization.from = Payer
                /\ TheWitnessAuthorization.permitted.token = Asset
                /\ TheWitnessAuthorization.spender = X402_EXACT_PERMIT2_PROXY_ADDRESS
                /\ TheWitnessAuthorization.witness.to = PayTo
                /\ TheWitnessAuthorization.deadline >= now + 6
                /\ TheWitnessAuthorization.witness.valid_after <= now
                /\ Inner.signature =
                       Some(Sign(Payer, WitnessDigest(TheWitnessAuthorization)))
         [] OTHER -> FALSE

SettlementCallsOf(log) ==
    {call \in UNION {CallsOf(log[i]) : i \in 1..Len(log)} :
        call.fn \in {"transferWithAuthorization_0", "transferWithAuthorization_1",
                     "permit", "settle", "transferFrom"}}

\* C21: the settler executes what the verifier simulated: whenever settle submits the
\* transaction of a validated payment (the first one, in the Permit2 branch) and verify,
\* run on the same payment in the same chain state, accepts it, the settlement call of
\* that transaction has the same
\* target, function and arguments (signature bytes included) as a settlement call
\* that verify simulated, for every context and every signature kind.
C21_SettleExecutesSimulated ==
    [][(/\ pc = "validated"
        /\ Cur.kind = "settle"
        /\ IsSome(ctx))
       => LET Same(v) ==
                  v.err = "" =>
                      SettlementCallsOf(SubSeq(rpcLog', Len(rpcLog) + 1, Len(rpcLog')))
                          \subseteq SettlementCallsOf(v.rpc)
          IN  Same(verify_context(chain, now, Unwrap(ctx)))]_vars

\* a Permit2Witness payment signed by the owner of a counterfactual wallet and wrapped
\* as EIP-6492 was settled with the wrapped bytes as the signature of proxy.settle,
\* and the transaction reverted
C21_Witness ==
    /\ pc = "done"
    /\ Cur.kind = "settle"
    /\ IsSome(ctx)
    /\ Unwrap(ctx).tag = "Permit2Witness"
    /\ Unwrap(ctx).payment.signature.fmt = "eip6492"
    /\ Unwrap(ctx).payment.signature.inner.key = Payer
    /\ Len(txs) = 1
    /\ txs[1].calldata.fn = "settle"
    /\ txs[1].calldata.args.signature = Unwrap(ctx).payment.signature
    /\ ~txs[1].status
    /\ result.err = "TransactionReverted"

(***************************************************************************)
(* The nonce manager under concurrent tasks.  A task reserves a nonce,     *)
(* broadcasts its transaction, the chain mines it when its nonce is the    *)
(* next one, and the task releases the nonce with the outcome it observed. *)
(* npending is the highest nonce of the signer the chain has taken.        *)
(***************************************************************************)
InitNonce ==
    /\ now = 1
    /\ chain = InitChain(ProviderChain, MaxAmount + 1)
    /\ pc = "idle"
    /\ req = None
    /\ ctx = None
    /\ result = NoResult
    /\ rpcLog = <<>>
    /\ txs = <<>>
    /\ served = 0
    /\ tnow = 0 /\ targs = <<0, 0>> /\ tres = <<"", "", "">>
    /\ sbytes = NoBytes /\ sexpected = "" /\ sprehash = <<>>
    /\ sedit = "none" /\ sres = Unclassified
    /\ nstate = FreshNonceState
    /\ npending \in 0..MaxPending
    /\ ntasks = [t \in Tasks |-> IdleTask]
    /\ nlog = <<>>
    /\ GateAtRest
    /\ OthersAtRest

\* task t calls reserve; the mutex is held across the read of the pending nonce and
\* the allocate-and-record step
Reserve(t) ==
    /\ ntasks[t].at = "idle"
    /\ LET Returned(r) ==
               /\ nstate' = r.state
               /\ ntasks' = [ntasks EXCEPT ![t] = [at |-> "held",
                                                   n |-> r.n]]
               /\ nlog' = Append(nlog, r.n)
       IN  Returned(reserve(nstate, npending))
    /\ UNCHANGED <<npending, requestVars, timeVars, sigVars, gateVars,
                   coerceVars, chainIdVars, raceVars>>

\* task t broadcasts the transaction that carries its nonce
Submit(t) ==
    /\ ntasks[t].at = "held"
    /\ ntasks' = [ntasks EXCEPT ![t].at = "sent"]
    /\ UNCHANGED <<nstate, npending, nlog, requestVars, timeVars, sigVars, gateVars,
                   coerceVars, chainIdVars, raceVars>>

\* the chain mines the transaction of task t: its nonce is the next one of the signer
Mine(t) ==
    /\ ntasks[t].at = "sent"
    /\ ntasks[t].n = npending + 1
    /\ npending' = ntasks[t].n
    /\ ntasks' = [ntasks EXCEPT ![t].at = "mined"]
    /\ UNCHANGED <<nstate, nlog, requestVars, timeVars, sigVars, gateVars,
                   coerceVars, chainIdVars, raceVars>>

\* task t observes its outcome and calls release: mined after the receipt, failed when
\* the submission failed before the broadcast
Release(t, outcome) ==
    /\ \/ outcome = "mined" /\ ntasks[t].at = "mined"
       \/ outcome = "failed" /\ ntasks[t].at = "held"
    /\ nstate' = release(nstate, ntasks[t].n, outcome)
    /\ ntasks' = [ntasks EXCEPT ![t].at = "done"]
    /\ UNCHANGED <<npending, nlog, requestVars, timeVars, sigVars, gateVars,
                   coerceVars, chainIdVars, raceVars>>

\* the manager reconciles with the chain
Reconcile ==
    /\ IsSome(nstate.highest)
    /\ nstate' = reconcile(nstate, npending)
    /\ nstate' # nstate
    /\ UNCHANGED <<npending, ntasks, nlog, requestVars, timeVars, sigVars, gateVars,
                   coerceVars, chainIdVars, raceVars>>

NextNonce ==
    \/ \E t \in Tasks : Reserve(t)
    \/ \E t \in Tasks : Submit(t)
    \/ \E t \in Tasks : Mine(t)
    \/ \E t \in Tasks, outcome \in {"mined", "failed"} : Release(t, outcome)
    \/ Reconcile

SpecNonce == InitNonce /\ [][NextNonce]_vars

\* every task is scheduled: a task that holds a nonce goes on to broadcast or to release
SpecNonceFair ==
    SpecNonce /\ \A t \in Tasks : WF_vars(Submit(t) \/ Release(t, "failed"))

(***************************************************************************)
(* Properties of the nonce manager.                                        *)
(***************************************************************************)
\* the owner of the reservation of task t has not observed an outcome yet
Outstanding(t) == ntasks[t].at \in {"held", "sent", "mined"}
\* task t gets its nonce in this step
Reserving(t) == ntasks[t].at = "idle" /\ ntasks'[t].at = "held"

\* C22: the nonce manager never hands out the same integer twice for one signer until
\* the owner of the earlier reservation has observed an outcome, and concurrent reserve
\* calls on the signer produce a strictly increasing sequence: the integer a reserve
\* call returns is greater than every integer handed out before it whose owner has not
\* yet observed an outcome, and it is the one appended to the sequence of returns.
C22_NoNonceHandedOutTwice ==
    [][\A t \in Tasks :
          Reserving(t) =>
              /\ nlog' = Append(nlog, ntasks'[t].n)
              /\ \A u \in Tasks \ {t} : Outstanding(u) => ntasks'[t].n > ntasks[u].n]_vars

\* three reserve calls on the signer are outstanding at once
C22_Witness ==
    /\ \A t \in Tasks : Outstanding(t)
    /\ Len(nlog) = NumTasks
    /\ \A i \in 1..(Len(nlog) - 1) : nlog[i] < nlog[i + 1]

\* the base of the next reservation: one above the highest of the pending nonce the
\* manager goes by and the nonces reserved
Base ==
    SetMax({IF IsSome(nstate.highest) THEN Unwrap(nstate.highest) ELSE npending}
               \cup nstate.reserved) + 1
\* the integers reserve has returned so far
Returned == {nlog[i] : i \in 1..Len(nlog)}

\* C23: nonce monotonicity without gaps: N concurrent reserve calls on one signer
\* return, in any interleaving, exactly base, base+1, ..., base+N-1, each once.  Every
\* reserve call returns the base of the state it runs in (determined by the pending
\* nonce and the nonces already reserved) and raises the base by one; and as long as
\* the N calls since first use are all outstanding and none of their transactions is
\* mined, the returned integers are the N integers that follow the pending nonce.
C23_NonceMonotonicityWithoutGaps ==
    /\ [][\A t \in Tasks :
             Reserving(t) =>
                 /\ ntasks'[t].n = Base
                 /\ nstate'.reserved = nstate.reserved \cup {Base}
                 /\ Base' = Base + 1]_vars
    /\ []((\A t \in Tasks : ntasks[t].at \in {"idle", "held", "sent"}) =>
             /\ Returned = (npending + 1)..(npending + Len(nlog))
             /\ Cardinality(Returned) = Len(nlog))

\* N reserve calls returned while none of them was released or mined, from a chain
\* whose pending nonce is not zero
C23_Witness ==
    /\ \A t \in Tasks : ntasks[t].at \in {"held", "sent"}
    /\ npending > 0
    /\ Len(nlog) = NumTasks
    /\ Returned = (npending + 1)..(npending + NumTasks)

\* task t releases its nonce in this step
Releasing(t) == ntasks[t].at \in {"held", "mined"} /\ ntasks'[t].at = "done"
\* the nonces whose transaction the chain has mined and whose owner has yet to release
MinedUnreleased == {ntasks[t].n : t \in {u \in Tasks : ntasks[u].at = "mined"}}

MaxGateRequests == 1
\* the audit log file is opened for appending: it is empty or holds the lines of an
\* earlier run
EarlierAuditLogs ==
    {<<>>,
     <<ComplianceAuditEvent(disabled, "verify", "allowed", Some(AddrA), None, None, <<>>)>>}

InitGate ==
    /\ now = 1
    /\ chain = InitChain(ProviderChain, MaxAmount + 1)
    /\ pc = "idle"
    /\ req = None
    /\ ctx = None
    /\ result = NoResult
    /\ rpcLog = <<>>
    /\ txs = <<>>
    /\ served = 0
    /\ tnow = 0 /\ targs = <<0, 0>> /\ tres = <<"", "", "">>
    /\ sbytes = NoBytes /\ sexpected = "" /\ sprehash = <<>>
    /\ sedit = "none" /\ sres = Unclassified
    /\ NonceAtRest
    /\ OthersAtRest
    /\ gconf \in Gates
    /\ gaudit \in EarlierAuditLogs
    /\ gemitted = <<>>
    /\ gqueries = <<>>
    /\ gpc = "idle"
    /\ greq = None
    /\ gres = Passed
    /\ grpc = 0
    /\ gserved = 0

\* a verify or settle request arrives
GateReceive(request_type, payer, payee) ==
    /\ gpc = "idle"
    /\ gserved < MaxGateRequests
    /\ gpc' = "received"
    /\ greq' = Some([payee |-> payee,
                     payer |-> payer,
                     request_type |-> request_type])
    /\ UNCHANGED <<gconf, gaudit, gemitted, gqueries, gres, grpc, gserved,
                   requestVars, timeVars, sigVars, nonceVars,
                   coerceVars, chainIdVars, raceVars>>

\* validate_for_request on the request's parties; the audit events it hands to
\* record_audit and the remote queries it makes are kept for the request
Screen(responses) ==
    /\ gpc = "received"
    /\ LET Screened(v) ==
               /\ gemitted' = v.events
               /\ gaudit' = IF v.events = <<>> THEN gaudit
                            ELSE record_audit(gconf, gaudit, v.events[1])
               /\ gqueries' = v.queries
               /\ gres' = v.result
               /\ gpc' = IF v.result = Passed THEN "compliance" ELSE "rejected"
       IN  Screened(validate_for_request(gconf, Unwrap(greq).request_type,
                        Unwrap(greq).payer, Unwrap(greq).payee, responses))
    /\ UNCHANGED <<gconf, greq, grpc, gserved, requestVars, timeVars, sigVars, nonceVars,
                   coerceVars, chainIdVars, raceVars>>

\* the screened request is validated by its scheme handler, which reads the chain
GateValidate ==
    /\ gpc = "compliance"
    /\ gpc' = "validated"
    /\ grpc' = grpc + 1
    /\ UNCHANGED <<gconf, gaudit, gemitted, gqueries, greq, gres, gserved,
                   requestVars, timeVars, sigVars, nonceVars,
                   coerceVars, chainIdVars, raceVars>>

\* the response leaves; the audit log stays
GateRespond ==
    /\ gpc \in {"validated", "rejected"}
    /\ gpc' = "idle"
    /\ gserved' = gserved + 1
    /\ greq' = None
    /\ gres' = Passed
    /\ grpc' = 0
    /\ gqueries' = <<>>
    /\ gemitted' = <<>>
    /\ UNCHANGED <<gconf, gaudit, requestVars, timeVars, sigVars, nonceVars,
                   coerceVars, chainIdVars, raceVars>>

NextGate ==
    \/ \E payer \in PayerInputs, payee \in PayeeInputs :
           GateReceive("settle", payer, payee)
    \/ \E payer_response \in Responses, payee_response \in Responses :
           Screen([payee |-> payee_response, payer |-> payer_response])
    \/ GateValidate
    \/ GateRespond

SpecGate == InitGate /\ [][NextGate]_vars

(***************************************************************************)
(* Properties of the compliance gate.                                      *)
(***************************************************************************)
\* the request in the gate has been screened: gres is the result of validate_for_request
Answered == gpc \in {"compliance", "rejected", "validated"}
GPayer == Unwrap(greq).payer
GPayee == Unwrap(greq).payee
\* a string that, trimmed and lowercased, is 40 hexadecimal digits with or without 0x
WellFormed(s) ==
    LET t == to_lowercase(trim(s))
    IN  \/ /\ Len(t) = 42 /\ t[1] = "0" /\ t[2] = "x"
           /\ \A i \in 3..42 : is_ascii_hexdigit(t[i])
        \/ /\ Len(t) = 40
           /\ \A i \in 1..40 : is_ascii_hexdigit(t[i])
\* its normalized form: lowercase and 0x-prefixed
Canon(s) ==
    LET t == to_lowercase(trim(s))
    IN  IF Len(t) = 40 THEN <<"0", "x">> \o t ELSE t
\* a supplied party with a well-formed address
Party(p) == IsSome(p) /\ WellFormed(Unwrap(p))
InvalidAddressFormat == gres.err = "ComplianceFailed" /\ Len(gres.msg) = 2
                     /\ gres.msg[2] = "has an invalid address format"

\* C25 as stated, last case: with the gate enabled, both lists empty and no remote
\* provider configured, the call returns Ok.
C25_EmptyListsReturnOk ==
    (/\ Answered /\ gconf.enabled
     /\ gconf.deny_list = {} /\ gconf.allow_list = {}
     /\ gconf.provider.tag = "lists")
    => gres = Passed

\* C25: compliance allow/deny with the gate enabled.  A party (payer or payee) whose
\* normalized (lowercase, 0x-prefixed) address is on the deny-list is rejected with
\* ComplianceFailed; with an allow-list configured, a party absent from it is rejected
\* with ComplianceFailed; the deny-list is checked before the allow-list, so a payer in
\* both lists is rejected as denied; with both lists empty and no remote provider the
\* call returns Ok unless a supplied address is rejected for its invalid format.
C25_ComplianceAllowDeny ==
    (Answered /\ gconf.enabled) =>
        /\ \A p \in {GPayer, GPayee} :
              Party(p) =>
                  /\ Canon(Unwrap(p)) \in gconf.deny_list => gres.err = "ComplianceFailed"
                  /\ (gconf.allow_list # {} /\ Canon(Unwrap(p)) \notin gconf.allow_list)
                         => gres.err = "ComplianceFailed"
        /\ Party(GPayer) =>
              /\ Canon(Unwrap(GPayer)) \in gconf.deny_list
                    => gres = [err |-> "ComplianceFailed",
                               msg |-> <<"payer", "is denied by compliance policy">>]
              /\ (/\ Canon(Unwrap(GPayer)) \notin gconf.deny_list
                  /\ gconf.allow_list # {}
                  /\ Canon(Unwrap(GPayer)) \notin gconf.allow_list)
                    => gres = [err |-> "ComplianceFailed",
                               msg |-> <<"payer", "is not in compliance allow-list">>]
        /\ (/\ gconf.deny_list = {} /\ gconf.allow_list = {}
            /\ gconf.provider.tag = "lists")
              => /\ gres # Passed => InvalidAddressFormat
                 /\ (\A p \in {GPayer, GPayee} : IsSome(p) => WellFormed(Unwrap(p)))
                        => gres = Passed

\* a payer written in capitals and padded with blanks, whose normalized address is on
\* both lists, was rejected as denied
C25_Witness ==
    /\ gpc = "rejected"
    /\ gconf.enabled
    /\ IsSome(GPayer)
    /\ Unwrap(GPayer) # Canon(Unwrap(GPayer))
    /\ Canon(Unwrap(GPayer)) \in gconf.deny_list \cap gconf.allow_list
    /\ gres.msg = <<"payer", "is denied by compliance policy">>

\* the step in which validate_for_request answers the request in the gate
Screening == gpc = "received" /\ gpc' # "received"

\* C26: when the gate is disabled, validate_for_request returns Ok for every payer and
\* payee, denied and malformed addresses included, checks no list (no party is
\* recorded), makes no remote query, and hands exactly one audit record, of outcome
\* "disabled", to the audit log, which appends it when a log file is configured.
C26_DisabledGatePasses ==
    [][(Screening /\ ~gconf.enabled) =>
           /\ gres' = Passed
           /\ gpc' = "compliance"
           /\ gqueries' = <<>>
           /\ Len(gemitted') = 1
           /\ gemitted'[1].outcome = "disabled"
           /\ gemitted'[1].parties = <<>>
           /\ gaudit' = IF gconf.audit_log_path = None THEN gaudit
                        ELSE Append(gaudit, gemitted'[1])]_vars

\* a disabled gate with a remote provider let a deny-listed payer through and wrote one
\* "disabled" record
C26_Witness ==
    /\ ~gconf.enabled
    /\ gconf.provider.tag = "chainalysis"
    /\ gpc = "compliance"
    /\ Party(GPayer)
    /\ Canon(Unwrap(GPayer)) \in gconf.deny_list
    /\ IsSome(GPayee) /\ ~WellFormed(Unwrap(GPayee))
    /\ gqueries = <<>>
    /\ Len(gaudit) = 1
    /\ gaudit[1].outcome = "disabled"

\* C27: with an audit log configured, every call to validate_for_request appends
\* exactly one audit record, whatever the path taken (disabled, allowed, denied for the
\* payer or the payee, rejected for an invalid address format), and the log is
\* append-only: the earlier records stay as they were.
C27_OneAuditRecordPerCall ==
    [][(Screening /\ gconf.audit_log_path # None) =>
           /\ Len(gaudit') = Len(gaudit) + 1
           /\ SubSeq(gaudit', 1, Len(gaudit)) = gaudit]_vars

\* a request was rejected for an invalid address format by a gate with an audit log,
\* and the log holds no record of it
C27_Witness ==
    /\ gconf.enabled
    /\ gconf.audit_log_path # None
    /\ gpc = "rejected"
    /\ InvalidAddressFormat
    /\ gemitted = <<>>
    /\ gaudit = <<>>

\* the party records of the audit events of the request in the gate
RecordedParties ==
    UNION {{e.parties[i] : i \in 1..Len(e.parties)} :
              e \in {gemitted[j] : j \in 1..Len(gemitted)}}

\* C28: with the gate enabled, each supplied address is normalized to a 0x-prefixed,
\* 40-hex-digit, lowercase string before any list or provider check (the parties checked
\* carry addresses of that form), an address that is not of that format (wrong length,
\* or non-hexadecimal characters after the prefix) is rejected with ComplianceFailed for
\* an invalid address format, and normalizing twice gives what normalizing once gives.
C28_AddressesNormalizedOrRejected ==
    (Answered /\ gconf.enabled) =>
        /\ (IsSome(GPayer) /\ ~WellFormed(Unwrap(GPayer)))
              => gres = ComplianceFailed(<<"payer", "has an invalid address format">>)
        /\ (IsSome(GPayee) /\ ~WellFormed(Unwrap(GPayee)))
              => gres.err = "ComplianceFailed"
        /\ \A p \in RecordedParties :
              WellFormed(p.address) /\ p.address = Canon(p.address) /\ Len(p.address) = 42
        /\ \A p \in {GPayer, GPayee} :
              (IsSome(p) /\ IsSome(normalize_address(Unwrap(p))))
                  => normalize_address(Unwrap(normalize_address(Unwrap(p))))
                         = normalize_address(Unwrap(p))

\* a payer of 0x and forty characters that are not hexadecimal digits passed an enabled
\* gate and was recorded as checked
C28_Witness ==
    /\ gconf.enabled
    /\ gpc = "compliance"
    /\ gres = Passed
    /\ IsSome(GPayer)
    /\ ~WellFormed(Unwrap(GPayer))
    /\ \E p \in RecordedParties : p.role = "payer" /\ p.status = "passed"
                                      /\ ~is_ascii_hexdigit(p.address[3])

\* the request in the gate was rejected on the strength of its last remote query
ProviderRejected ==
    /\ gres.err = "ComplianceFailed"
    /\ gqueries # <<>>
    /\ \/ gres.msg = <<"chainalysis request failed">>
       \/ /\ Len(gres.msg) = 2
          /\ gres.msg[2] \in {"failed provider screening", "screening result unresolved"}

\* C29: with a remote provider configured, a party whose screening gave no recognised
\* verdict (the request failed, or the answer was not understood) is denied when
\* fail_closed is true and allowed when fail_closed is false; a party the provider
\* reports as blocked is always rejected and one it reports as clear always passes the
\* screening.
C29_RemoteScreeningOutcome ==
    (Answered /\ gconf.enabled /\ gconf.provider.tag = "chainalysis") =>
        \A i \in 1..Len(gqueries) :
            LET decided == i = Len(gqueries) /\ ProviderRejected
            IN  /\ gqueries[i].response = "blocked" => decided
                /\ gqueries[i].response = "clear" => ~decided
                /\ gqueries[i].response \in {"failed", "unrecognized"}
                       => (decided <=> gconf.provider.fail_closed)

\* a gate that does not fail closed rejected a party whose remote query failed, and
\* recorded the party's status as unknown
C29_Witness ==
    /\ gconf.enabled
    /\ gconf.provider.tag = "chainalysis"
    /\ ~gconf.provider.fail_closed
    /\ gpc = "rejected"
    /\ gqueries # <<>>
    /\ gqueries[Len(gqueries)].response = "failed"
    /\ gres = ComplianceFailed(<<"chainalysis request failed">>)
    /\ \E p \in RecordedParties : p.status = "unknown"

\* C30: a compliance rejection precedes all network cost.  When the payer's normalized
\* address is on the deny-list of an enabled gate, the request is rejected with
\* ComplianceFailed without any remote screening query and without any chain RPC call:
\* it goes from received to rejected and never reaches validation, a rejected request
\* has made no RPC call, and the audit line appended for it has outcome "denied".
C30_ComplianceRejectionPrecedesNetworkCost ==
    /\ [][(/\ Screening /\ gconf.enabled
           /\ Party(GPayer)
           /\ Canon(Unwrap(GPayer)) \in gconf.deny_list) =>
              /\ gpc' = "rejected"
              /\ gres' = [err |-> "ComplianceFailed",
                          msg |-> <<"payer", "is denied by compliance policy">>]
              /\ gqueries' = <<>>
              /\ grpc = 0 /\ grpc' = 0
              /\ gconf.audit_log_path # None =>
                     /\ Len(gaudit') = Len(gaudit) + 1
                     /\ SubSeq(gaudit', 1, Len(gaudit)) = gaudit
                     /\ gaudit'[Len(gaudit')].outcome = "denied"
                     /\ gaudit'[Len(gaudit')].payer = Some(Canon(Unwrap(GPayer)))]_vars
    /\ [][gpc = "rejected" => gpc' \in {"rejected", "idle"}]_vars
    /\ [](gpc = "rejected" => grpc = 0)

\* a gate with a remote provider rejected a deny-listed payer without a query or an
\* RPC call and appended a "denied" line
C30_Witness ==
    /\ gconf.enabled
    /\ gconf.provider.tag = "chainalysis"
    /\ gpc = "rejected"
    /\ Party(GPayer)
    /\ Canon(Unwrap(GPayer)) \in gconf.deny_list
    /\ gqueries = <<>>
    /\ grpc = 0
    /\ gaudit # <<>>
    /\ gaudit[Len(gaudit)].outcome = "denied"

(***************************************************************************)
(* The Permit2 call at the widths of the code: build_permit2_single_call    *)
(* and settle_payment_permit2 on payments whose numbers reach the limits of *)
(* uint160, uint48, u64 and U256.                                           *)
(***************************************************************************)
\* 2^k as a value of the given width (k a multiple of 16)
PowerOfTwo(k, bits) == [i \in 1..(bits \div 16) |-> IF i = (k \div 16) + 1 THEN 1 ELSE 0]
\* U256 amounts: small, uint160's largest, the first beyond it, one whose third limb
\* alone is too large, one whose low three limbs are zero, the largest U256
WideAmounts ==
    {from_nat(2, 256), Resize(UintMax(160), 256), PowerOfTwo(160, 256),
     PowerOfTwo(176, 256), PowerOfTwo(192, 256), UintMax(256)}
\* u64 values: small, uint48's largest, the first beyond it, the largest u64
WideU64s ==
    {from_nat(1, 64), Resize(UintMax(48), 64), PowerOfTwo(48, 64), UintMax(64)}
WideTransferAmounts ==
    {from_nat(2, 256), Resize(UintMax(160), 256), PowerOfTwo(160, 256)}
WidePayments ==
    {[amount |-> amount,
      expiration |-> expiration,
      nonce |-> nonce,
      owner |-> Payer,
      pay_to |-> "R1",
      sig_deadline |-> UintMax(64),
      signature |-> "signature",
      spender |-> Signers[1],
      token |-> Token,
      transfer_amount |-> transfer_amount] :
        amount \in WideAmounts, expiration \in WideU64s, nonce \in WideU64s,
        transfer_amount \in WideTransferAmounts}

\* settle_payment_permit2: both coercions, then permit, then transferFrom, each
\* submitted from the spender and awaited; the receipts' statuses are the chain's
settle_payment_permit2(contract, payment, permit_status, transfer_status) ==
    LET permit_single == build_permit2_single_call(payment)
        transfer_amount == permit2_amount(payment.transfer_amount)
        Reverted(tx_hash) == [err |-> "TransactionReverted",
                              msg |-> <<>>,
                              value |-> tx_hash]
        Outcome(answer, sent) == [result |-> answer,
                                  sent |-> sent]
        permit_tx == MetaTransaction([args |-> [owner |-> payment.owner,
                                                permitSingle |-> permit_single.value,
                                                signature |-> payment.signature],
                                      fn |-> "permit",
                                      target |-> contract])
        transfer_tx == MetaTransaction([args |-> [amount |-> transfer_amount.value,
                                                  from |-> payment.owner,
                                                  to |-> payment.pay_to,
                                                  token |-> payment.token],
                                        fn |-> "transferFrom",
                                        target |-> contract])
    IN  IF permit_single.err # "" THEN Outcome(permit_single, <<>>)
        ELSE IF transfer_amount.err # "" THEN Outcome(transfer_amount, <<>>)
        ELSE IF ~permit_status THEN Outcome(Reverted("permit_tx"), <<permit_tx>>)
        ELSE IF ~transfer_status
        THEN Outcome(Reverted("transfer_tx"), <<permit_tx, transfer_tx>>)
        ELSE Outcome(Coerced("transfer_tx"), <<permit_tx, transfer_tx>>)

InitPermit2Call ==
    /\ now = 1
    /\ chain = InitChain(ProviderChain, MaxAmount + 1)
    /\ pc = "idle"
    /\ req = None
    /\ ctx = None
    /\ result = NoResult
    /\ rpcLog = <<>>
    /\ txs = <<>>
    /\ served = 0
    /\ tnow = 0 /\ targs = <<0, 0>> /\ tres = <<"", "", "">>
    /\ sbytes = NoBytes /\ sexpected = "" /\ sprehash = <<>>
    /\ sedit = "none" /\ sres = Unclassified
    /\ NonceAtRest
    /\ GateAtRest
    /\ ChainIdAtRest
    /\ RaceAtRest
    /\ wpayment \in WidePayments
    /\ wbuilt = Coerced(<<>>)
    /\ wresult = Coerced(<<>>)
    /\ wtxs = <<>>
    /\ wpc = "context"

\* verify builds the PermitSingle of the payment
BuildPermit2Call ==
    /\ wpc = "context"
    /\ wbuilt' = build_permit2_single_call(wpayment)
    /\ wpc' = "built"
    /\ UNCHANGED <<wpayment, wresult, wtxs, requestVars, timeVars, sigVars, nonceVars,
                   gateVars, chainIdVars, raceVars>>

\* settle runs settle_payment_permit2 on the payment
SettlePermit2Call(permit_status, transfer_status) ==
    /\ wpc = "context"
    /\ LET Settled(v) == wresult' = v.result /\ wtxs' = v.sent
       IN  Settled(settle_payment_permit2(PERMIT2_ADDRESS, wpayment, permit_status,
                                          transfer_status))
    /\ wpc' = "settled"
    /\ UNCHANGED <<wpayment, wbuilt, requestVars, timeVars, sigVars, nonceVars,
                   gateVars, chainIdVars, raceVars>>

NextPermit2Call ==
    \/ BuildPermit2Call
    \/ \E permit_status \in BOOLEAN, transfer_status \in BOOLEAN :
           SettlePermit2Call(permit_status, transfer_status)

SpecPermit2Call == InitPermit2Call /\ [][NextPermit2Call]_vars

\* the value is at least 2^bits
Exceeds(x, bits) == \E i \in 1..Len(x) : i > bits \div 16 /\ x[i] # 0
\* two digit sequences of one value
SameValue(x, y) ==
    \A i \in 1..(IF Len(x) > Len(y) THEN Len(x) ELSE Len(y)) :
        (IF i <= Len(x) THEN x[i] ELSE 0) = (IF i <= Len(y) THEN y[i] ELSE 0)
\* the field the answer must name: the first of amount, expiration, nonce out of range
FirstOutOfRange ==
    IF Exceeds(wpayment.amount, 160) THEN <<"Permit2", "amount", "exceeds uint160">>
    ELSE IF Exceeds(wpayment.expiration, 48)
    THEN <<"Permit2", "expiration", "exceeds uint48">>
    ELSE IF Exceeds(wpayment.nonce, 48) THEN <<"Permit2", "nonce", "exceeds uint48">>
    ELSE <<>>

\* C31: bounded numeric coercion for Permit2.  Building the permit call fails with
\* InvalidFormat when the amount is above 2^160 - 1 ("exceeds uint160") or when the
\* expiration or the nonce is above 2^48 - 1 (the message names the field), and for
\* values in range it succeeds and every coerced value equals its input; in settle the
\* failure, that of the transfer amount included, happens before any transaction is
\* submitted.
C31_BoundedNumericCoercion ==
    /\ wpc = "built" =>
          IF FirstOutOfRange # <<>>
          THEN wbuilt.err = "InvalidFormat" /\ wbuilt.msg = FirstOutOfRange
          ELSE /\ wbuilt.err = ""
               /\ Len(wbuilt.value.details.amount) = 10
               /\ Len(wbuilt.value.details.expiration) = 3
               /\ Len(wbuilt.value.details.nonce) = 3
               /\ SameValue(wbuilt.value.details.amount, wpayment.amount)
               /\ SameValue(wbuilt.value.details.expiration, wpayment.expiration)
               /\ SameValue(wbuilt.value.details.nonce, wpayment.nonce)
               /\ SameValue(wbuilt.value.sigDeadline, wpayment.sig_deadline)
    /\ wpc = "settled" =>
          IF FirstOutOfRange # <<>>
          THEN wresult.err = "InvalidFormat" /\ wresult.msg = FirstOutOfRange /\ wtxs = <<>>
          ELSE IF Exceeds(wpayment.transfer_amount, 160)
          THEN /\ wresult.err = "InvalidFormat"
               /\ wresult.msg = <<"Permit2", "amount", "exceeds uint160">>
               /\ wtxs = <<>>
          ELSE /\ wresult.err \in {"", "TransactionReverted"}
               /\ wtxs # <<>>
               /\ SameValue(wtxs[1].calldata.args.permitSingle.details.amount,
                            wpayment.amount)
               /\ SameValue(wtxs[1].calldata.args.permitSingle.details.nonce,
                            wpayment.nonce)
               /\ Len(wtxs) = 2 =>
                      SameValue(wtxs[2].calldata.args.amount, wpayment.transfer_amount)

\* settle refused a payment whose amount and expiration are in range and whose nonce
\* is 2^48, and submitted nothing
C31_Witness ==
    /\ wpc = "settled"
    /\ wpayment.nonce = PowerOfTwo(48, 64)
    /\ wpayment.amount = Resize(UintMax(160), 256)
    /\ wpayment.expiration = Resize(UintMax(48), 64)
    /\ wresult = InvalidFormat(<<"Permit2", "nonce", "exceeds uint48">>)
    /\ wtxs = <<>>

(***************************************************************************)
(* Further properties of the request pipeline.                             *)
(***************************************************************************)
\* the RPC operations the step adds to the log
NewRpc == SubSeq(rpcLog', Len(rpcLog) + 1, Len(rpcLog'))
\* the verify handler answers a request whose context is of the Permit2 branch
VerifyingPermit2 ==
    /\ pc = "validated" /\ pc' = "done"
    /\ Cur.kind = "verify"
    /\ IsSome(ctx) /\ Unwrap(ctx).tag = "Permit2"

\* C32: Permit2 verification runs three steps in order - the simulation of
\* Permit2.permit, the re-read of allowance(owner, PERMIT2), the dry run of transferFrom
\* sent from the Permit2 address - and stops at the first failure: a failed permit gives
\* InvalidSignature, the other two give TransactionSimulation.  The re-read sees the
\* chain as it is, so when the owner's ERC-20 allowance to Permit2 is below the transfer
\* amount and the permit simulation succeeded, verify fails with TransactionSimulation
\* before the dry run.  Nothing of it changes the chain.
C32_Permit2VerificationSteps ==
    [][VerifyingPermit2 =>
          LET payment == Unwrap(ctx).payment
              short == chain.erc20Allow[payment.token][payment.owner]
                           < payment.transfer_amount
          IN  /\ Len(NewRpc) \in 1..3
              /\ NewRpc[1].kind = "eth_call"
              /\ NewRpc[1].calls[1].fn = "permit"
              /\ NewRpc[1].calls[1].target = PERMIT2_ADDRESS
              /\ Len(NewRpc) >= 2 => NewRpc[2].kind = "read"
                                       /\ NewRpc[2].calls[1].fn = "allowance"
              /\ Len(NewRpc) = 3 =>
                     /\ NewRpc[3].kind = "eth_call"
                     /\ NewRpc[3].calls[1].fn = "transferFrom"
                     /\ NewRpc[3].calls[1].target = payment.token
                     /\ NewRpc[3].calls[1].args.amount = payment.transfer_amount
                     /\ NewRpc[3].calls[1].args.to = payment.pay_to
              /\ Len(NewRpc) = 1 <=> result'.err = "InvalidSignature"
              /\ Len(NewRpc) = 2 <=> (short /\ result'.err = "TransactionSimulation")
              /\ Len(NewRpc) = 3 => result'.err \in {"", "TransactionSimulation"}
              /\ result'.status = "valid" => Len(NewRpc) = 3 /\ ~short
              /\ short => result'.err \in {"InvalidSignature", "TransactionSimulation"}
              /\ chain' = chain]_vars

\* verify simulated the permit, read an allowance below the amount and answered
\* TransactionSimulation without the dry run
C32_Witness ==
    /\ pc = "done"
    /\ Cur.kind = "verify"
    /\ IsSome(ctx) /\ Unwrap(ctx).tag = "Permit2"
    /\ chain.erc20Allow[Unwrap(ctx).payment.token][Unwrap(ctx).payment.owner]
           < Unwrap(ctx).payment.transfer_amount
    /\ result.err = "TransactionSimulation"
    /\ result.msg = "Permit2 ERC20 allowance is insufficient"
    /\ rpcLog[Len(rpcLog)].kind = "read"
    /\ rpcLog[Len(rpcLog) - 1].calls[1].fn = "permit"

\* pre-flight answers the request in flight
Preflighting == pc = "received" /\ pc' # "received"
\* the error of the first failing check of the ERC-3009 branch, in the stated order
\* ("" when every check passes)
FirstFailingEip3009 ==
    IF TheAuthorization.to # PayTo THEN <<"RecipientMismatch", "">>
    ELSE IF TheAuthorization.valid_before < now + 6 THEN <<"Expired", "">>
    ELSE IF TheAuthorization.valid_after > now THEN <<"Early", "">>
    ELSE IF chain.balance[Asset][TheAuthorization.from] < Required
    THEN <<"InsufficientFunds", "">>
    ELSE IF TheAuthorization.value # Required THEN <<"InvalidPaymentAmount", "">>
    ELSE IF Inner.signature = None THEN <<"InvalidFormat", "Missing signature">>
    ELSE <<"", "">>
\* the reads of the EIP-712 domain construction
DomainReads ==
    IF Cur.requirements.extra = None THEN <<Read("name"), Read("version")>> ELSE <<>>

WitnessStaticChecksPass ==
    /\ TheWitnessAuthorization.permitted.token = Asset
    /\ TheWitnessAuthorization.spender = x402_exact_permit2_proxy_address
    /\ TheWitnessAuthorization.witness.to = PayTo
    /\ TheWitnessAuthorization.permitted.amount = Required
    /\ TheWitnessAuthorization.deadline >= now + 6
    /\ TheWitnessAuthorization.witness.valid_after <= now
WitnessBalance ==
    chain.balance[TheWitnessAuthorization.permitted.token][TheWitnessAuthorization.from]
WitnessAllowance ==
    chain.erc20Allow[TheWitnessAuthorization.permitted.token][TheWitnessAuthorization.from]
WitnessPreflight == Preflighting /\ BindingOk /\ Branch = "Permit2Witness"

\* C34 as stated: in the Permit2Witness branch a shortfall of the balance or of the
\* allowance to Permit2 is rejected with TransactionSimulation.
C34_ShortfallIsTransactionSimulation ==
    [][(/\ WitnessPreflight /\ WitnessStaticChecksPass
        /\ (WitnessBalance < Required \/ WitnessAllowance < Required))
          => result'.err = "TransactionSimulation"]_vars

\* C34: in the Permit2Witness branch pre-flight succeeds only if both
\* balance_of(from) >= amount and allowance(from, PERMIT2) >= amount hold when read; a
\* shortfall of the balance is rejected with InsufficientFunds and, the balance
\* sufficing, a shortfall of the allowance with TransactionSimulation("Permit2 ERC20
\* allowance is insufficient"); the two reads happen only after the token,
\* spender-proxy, recipient, amount and time checks have all passed, the balance first.
C34_WitnessBalanceAndAllowance ==
    [][WitnessPreflight =>
          /\ pc' = "validated" =>
                 /\ WitnessStaticChecksPass
                 /\ WitnessBalance >= Required
                 /\ WitnessAllowance >= Required
          /\ ~WitnessStaticChecksPass => rpcLog' = <<>> /\ pc' = "done"
          /\ (WitnessStaticChecksPass /\ WitnessBalance < Required) =>
                 /\ result'.err = "InsufficientFunds"
                 /\ rpcLog' = <<Read("balanceOf")>>
          /\ (WitnessStaticChecksPass /\ WitnessBalance >= Required) =>
                 rpcLog' = <<Read("balanceOf"), Read("allowance")>>
          /\ (/\ WitnessStaticChecksPass /\ WitnessBalance >= Required
              /\ WitnessAllowance < Required) =>
                 /\ result'.err = "TransactionSimulation"
                 /\ result'.msg = "Permit2 ERC20 allowance is insufficient"]_vars

\* a witness payment passing the static checks, from a payer with the funds whose
\* allowance to Permit2 is short, was rejected with TransactionSimulation after both reads
C34_Witness ==
    /\ pc = "done"
    /\ BindingOk
    /\ Branch = "Permit2Witness"
    /\ WitnessStaticChecksPass
    /\ WitnessBalance >= Required
    /\ WitnessAllowance < Required
    /\ result.err = "TransactionSimulation"
    /\ rpcLog = <<Read("balanceOf"), Read("allowance")>>

(***************************************************************************)
(* Chain ids and chain id patterns (x402-types, chain/chain_id.rs).        *)
(*                                                                         *)
(* A string is the sequence of its characters, so that Display builds a    *)
(* text and FromStr takes it apart again.  The texts are the strings of    *)
(* at most MaxChainIdLen characters over ChainIdChars; the components of   *)
(* a ChainId built with ChainId::new are the strings two characters        *)
(* shorter, so that the displayed form of every such ChainId is one of     *)
(* the texts.                                                              *)
(***************************************************************************)
MaxChainIdLen == 3
MaxReferences == 2
ChainIdChars == {"a", ":"}
Text(n) == UNION {[1..k -> ChainIdChars] : k \in 0..n}
Components == Text(MaxChainIdLen - 2)

\* ChainId::new: any two strings
ChainId(namespace, reference) == [namespace |-> namespace, reference |-> reference]
ChainIds == {ChainId(namespace, reference) : namespace \in Components, reference \in Components}

\* impl Display for ChainId: write!(f, "{}:{}", namespace, reference)
to_string(chain_id) == chain_id.namespace \o <<":">> \o chain_id.reference

\* str::splitn(2, pat): the text before the first pat and the text after it, or the
\* whole text when pat does not occur
splitn2(s, pat) ==
    LET found == {i \in 1..Len(s) : s[i] = pat}
    IN  IF found = {} THEN <<s>>
        ELSE LET first == CHOOSE i \in found : \A j \in found : i <= j
             IN  <<SubSeq(s, 1, first - 1), SubSeq(s, first + 1, Len(s))>>

NoChainId == ChainId(<<>>, <<>>)
ChainIdFormatError(s) == [chain_id |-> NoChainId, err |-> "Invalid chain id format", input |-> s]
ParsedChainId(chain_id, s) == [chain_id |-> chain_id, err |-> "", input |-> s]
NotParsed == [chain_id |-> NoChainId, err |-> "not parsed", input |-> <<>>]

\* impl FromStr for ChainId
from_str(s) ==
    LET parts == splitn2(s, ":")
    IN  IF Len(parts) # 2 THEN ChainIdFormatError(s)
        ELSE ParsedChainId(ChainId(parts[1], parts[2]), s)

\* enum ChainIdPattern and its constructors; a variant leaves the fields it does not
\* have empty
wildcard(namespace) ==
    [kind |-> "Wildcard", namespace |-> namespace, reference |-> <<>>, references |-> {}]
exact(namespace, reference) ==
    [kind |-> "Exact", namespace |-> namespace, reference |-> reference, references |-> {}]
set(namespace, references) ==
    [kind |-> "Set", namespace |-> namespace, reference |-> <<>>, references |-> references]
NoPattern == [kind |-> "none", namespace |-> <<>>, reference |-> <<>>, references |-> {}]

\* matches that looks a Set's references up without comparing the namespace
matches_reference_only(pattern, chain_id) ==
    CASE pattern.kind = "Wildcard" -> chain_id.namespace = pattern.namespace
      [] pattern.kind = "Exact" ->
            chain_id.namespace = pattern.namespace /\ chain_id.reference = pattern.reference
      [] pattern.kind = "Set" -> chain_id.reference \in pattern.references

\* ChainIdPattern::matches
matches(pattern, chain_id) ==
    CASE pattern.kind = "Wildcard" -> chain_id.namespace = pattern.namespace
      [] pattern.kind = "Exact" ->
            chain_id.namespace = pattern.namespace /\ chain_id.reference = pattern.reference
      [] pattern.kind = "Set" ->
            chain_id.namespace = pattern.namespace /\ chain_id.reference \in pattern.references

\* impl From<ChainId> for ChainIdPattern
ChainIdPatternFrom(chain_id) == exact(chain_id.namespace, chain_id.reference)

ReferenceSets == {refs \in SUBSET Components : Cardinality(refs) <= MaxReferences}
ChainIdPatterns ==
    {wildcard(namespace) : namespace \in Components}
        \cup {exact(namespace, reference) : namespace \in Components, reference \in Components}
        \cup {set(namespace, references) : namespace \in Components, references \in ReferenceSets}

\* a text to parse, a ChainId to display or to turn into a pattern, or a pattern and a
\* ChainId to match
InitChainId ==
    /\ \/ /\ kpc = "text"
          /\ kinput \in Text(MaxChainIdLen)
          /\ kchain = NoChainId
          /\ kpattern = NoPattern
       \/ /\ kpc = "new"
          /\ kinput = <<>>
          /\ kchain \in ChainIds
          /\ kpattern \in ChainIdPatterns \cup {NoPattern}
    /\ korigin = None
    /\ kparsed = NotParsed
    /\ kmatched = FALSE
    /\ now = 0 /\ chain = InitChain(ProviderChain, 0) /\ pc = "idle" /\ req = <<>>
    /\ ctx = None /\ result = <<>> /\ rpcLog = <<>> /\ txs = <<>> /\ served = 0
    /\ tnow = 0 /\ targs = <<>> /\ tres = <<>>
    /\ sbytes = <<>> /\ sexpected = <<>> /\ sprehash = <<>> /\ sedit = <<>> /\ sres = <<>>
    /\ NonceAtRest /\ GateAtRest /\ CoerceAtRest /\ RaceAtRest

\* chain_id.to_string()
DisplayChainId ==
    /\ kpc = "new"
    /\ kpattern = NoPattern
    /\ kinput' = to_string(kchain)
    /\ kpc' = "shown"
    /\ UNCHANGED <<kchain, kpattern, korigin, kparsed, kmatched>>
    /\ UNCHANGED <<requestVars, timeVars, sigVars, nonceVars, gateVars, coerceVars, raceVars>>

\* text.parse::<ChainId>(), of a given text or of a displayed ChainId
ParseChainId ==
    /\ kpc \in {"text", "shown"}
    /\ kparsed' = from_str(kinput)
    /\ kpc' = IF kpc = "shown" THEN "reparsed" ELSE "parsed"
    /\ UNCHANGED <<kinput, kchain, kpattern, korigin, kmatched>>
    /\ UNCHANGED <<requestVars, timeVars, sigVars, nonceVars, gateVars, coerceVars, raceVars>>

\* ChainIdPattern::from(origin), to be matched against kchain
PatternFromChainId(origin) ==
    /\ kpc = "new"
    /\ kpattern = NoPattern
    /\ korigin = None
    /\ kpattern' = ChainIdPatternFrom(origin)
    /\ korigin' = Some(origin)
    /\ UNCHANGED <<kpc, kinput, kchain, kparsed, kmatched>>
    /\ UNCHANGED <<requestVars, timeVars, sigVars, nonceVars, gateVars, coerceVars, raceVars>>

\* pattern.matches(&chain_id)
MatchChainId ==
    /\ kpc = "new"
    /\ kpattern # NoPattern
    /\ kmatched' = matches(kpattern, kchain)
    /\ kpc' = "matched"
    /\ UNCHANGED <<kinput, kchain, kpattern, korigin, kparsed>>
    /\ UNCHANGED <<requestVars, timeVars, sigVars, nonceVars, gateVars, coerceVars, raceVars>>

NextChainId ==
    \/ DisplayChainId
    \/ ParseChainId
    \/ \E origin \in ChainIds : PatternFromChainId(origin)
    \/ MatchChainId

SpecChainId == InitChainId /\ [][NextChainId]_vars

\* C35: ChainIdPattern.matches is a function of the pattern and the chain id alone:
\* Wildcard{ns} matches exactly the chain ids whose namespace is ns, Exact{ns, ref}
\* exactly the chain id (ns, ref), Set{ns, refs} exactly the chain ids whose namespace
\* is ns and whose reference is in refs; and the pattern obtained from a ChainId
\* matches that ChainId and no other.
C35_PatternMatchesExactly ==
    kpc = "matched" =>
        /\ kpattern.kind = "Wildcard" => (kmatched <=> kchain.namespace = kpattern.namespace)
        /\ kpattern.kind = "Exact" =>
              (kmatched <=> kchain = ChainId(kpattern.namespace, kpattern.reference))
        /\ kpattern.kind = "Set" =>
              (kmatched <=> /\ kchain.namespace = kpattern.namespace
                            /\ kchain.reference \in kpattern.references)
        /\ IsSome(korigin) => (kmatched <=> kchain = Unwrap(korigin))

\* a Set pattern that holds the reference of a chain id of another namespace has been
\* matched against it
C35_Witness ==
    /\ kpc = "matched"
    /\ kpattern.kind = "Set"
    /\ kchain.reference \in kpattern.references
    /\ kchain.namespace # kpattern.namespace
    /\ ~kmatched

NonEmpty(s) == s # <<>>

\* C36: a ChainId is a pair of non-empty strings: a text parses only when it is
\* namespace:reference with both components non-empty, and parsing the displayed form
\* of a ChainId gives back an equal ChainId.
C36_ChainIdParseRoundTrip ==
    /\ kpc = "parsed" /\ kparsed.err = "" =>
          /\ NonEmpty(kparsed.chain_id.namespace)
          /\ NonEmpty(kparsed.chain_id.reference)
          /\ kinput = kparsed.chain_id.namespace \o <<":">> \o kparsed.chain_id.reference
    /\ kpc = "reparsed" /\ NonEmpty(kchain.namespace) /\ NonEmpty(kchain.reference) =>
          /\ kparsed.err = ""
          /\ kparsed.chain_id = kchain

\* the text ":a" has been parsed into a ChainId whose namespace is empty
C36_Witness ==
    /\ kpc = "parsed"
    /\ kinput = <<":", "a">>
    /\ kparsed.err = ""
    /\ kparsed.chain_id = ChainId(<<>>, <<"a">>)

\* C37: a V2 request whose payload.accepted differs from its requirements in any
\* field fails with AcceptedRequirementsMismatch before the chain binding, the branch
\* selection, the time and amount checks and any RPC read; every V2 context is built
\* from requirements equal to what the payer accepted.
C37_AcceptedRequirementsFirst ==
    (InFlight /\ Cur.version = 2) =>
        /\ (pc = "done" /\ Cur.payload.accepted # Cur.requirements) =>
              /\ result.status = "error"
              /\ result.err = "AcceptedRequirementsMismatch"
              /\ result.msg = ""
              /\ ctx = None
              /\ rpcLog = <<>>
              /\ txs = <<>>
        /\ IsSome(ctx) =>
              /\ Cur.payload.accepted = Cur.requirements
              /\ Unwrap(ctx).tag = Branch

\* a V2 request whose accepted requirements differ from the request's only in the
\* amount, and whose authorization has expired, was answered
\* AcceptedRequirementsMismatch without any read
C37_Witness ==
    /\ pc = "done"
    /\ Cur.version = 2
    /\ Cur.payload.accepted # Cur.requirements
    /\ Cur.payload.accepted.network = chain.id
    /\ Branch = "Eip3009"
    /\ TheAuthorization.valid_before < now + 6
    /\ result.err = "AcceptedRequirementsMismatch"
    /\ rpcLog = <<>>

(***************************************************************************)
(* Concurrent settlements.  MaxSettlers tasks run the settle handler on    *)
(* the same request, each one a task of its own that the runtime may       *)
(* suspend at every await: after pre-flight, after the transaction has     *)
(* been handed to the provider, and until its receipt is there.  The       *)
(* tasks share the chain; the provider sends every transaction from its    *)
(* first signer, so they are mined in the order they were submitted.       *)
(*   rtasks   per task: its position, its context, its receipt, its answer *)
(*   rreq     the settle request all tasks carry                           *)
(*   rchain   the chain state                                              *)
(*   rpool    the submitted transactions not mined yet, oldest first       *)
(*   rtxs     the mined transactions, in order                             *)
(***************************************************************************)
MaxSettlers == 2
Settlers == 1..MaxSettlers

NoReceipt == [status |-> FALSE, transaction_hash |-> <<>>]
SettleTask(at, context, receipt, answer) ==
    [ctx |-> context, pc |-> at, receipt |-> receipt, result |-> answer]

\* settle requests of either protocol version carrying an ERC-3009 authorization
RaceRequests ==
    {Request("settle", 1, [network |-> "etherlink", payload |-> p], RequirementsV1) :
        p \in AuthorizationPayloads \cup WalletPayloads}
    \cup {Request("settle", 2, [accepted |-> RequirementsV2, payload |-> p], RequirementsV2) :
        p \in AuthorizationPayloads \cup WalletPayloads}

InitRace ==
    /\ rreq \in {Some(r) : r \in RaceRequests}
    /\ rchain \in {InitChain(ProviderChain, MaxAmount + 1),
                  InitChain(ProviderChain, RequiredAmount)}
    /\ rtasks = [i \in Settlers |-> SettleTask("received", None, NoReceipt, NoResult)]
    /\ rpool = <<>>
    /\ rtxs = <<>>
    /\ now = 1 /\ chain = InitChain(ProviderChain, 0) /\ pc = "idle" /\ req = None
    /\ ctx = None /\ result = NoResult /\ rpcLog = <<>> /\ txs = <<>> /\ served = 0
    /\ tnow = 0 /\ targs = <<0, 0>> /\ tres = <<"", "", "">>
    /\ sbytes = NoBytes /\ sexpected = "" /\ sprehash = <<>>
    /\ sedit = "none" /\ sres = Unclassified
    /\ NonceAtRest /\ GateAtRest /\ CoerceAtRest /\ ChainIdAtRest

RaceRest ==
    UNCHANGED <<requestVars, timeVars, sigVars, nonceVars, gateVars, coerceVars, chainIdVars>>

\* settle: assert_valid_payment(...).await?
RacePreflight(i) ==
    /\ rtasks[i].pc = "received"
    /\ LET Validated(res) ==
               rtasks' = [rtasks EXCEPT ![i] =
                   IF preflight_passed(res)
                   THEN SettleTask("validated", res.ctx, NoReceipt, NoResult)
                   ELSE SettleTask("done", None, NoReceipt, Failure(res.err, res.msg))]
       IN  Validated(assert_valid_payment(rchain, now, Unwrap(rreq)))
    /\ UNCHANGED <<rreq, rchain, rpool, rtxs>>
    /\ RaceRest

\* settle_payment up to the point where the provider has submitted the transaction
RaceSubmit(i) ==
    /\ rtasks[i].pc = "validated"
    /\ LET context == Unwrap(rtasks[i].ctx)
           Built(m) ==
               IF m.err # ""
               THEN /\ rtasks' = [rtasks EXCEPT ![i] =
                          SettleTask("done", @.ctx, NoReceipt, Failure(m.err, ""))]
                    /\ rpool' = rpool
               ELSE /\ rtasks' = [rtasks EXCEPT ![i].pc = "submitted"]
                    /\ rpool' = Append(rpool, [meta |-> Unwrap(m.meta), task |-> i])
       IN  Built(settle_payment_meta(rchain, context.contract, context.payment,
                                     context.domain))
    /\ UNCHANGED <<rreq, rchain, rtxs>>
    /\ RaceRest

\* the chain mines the oldest submitted transaction; its receipt reaches the task
RaceMine ==
    /\ rpool # <<>>
    /\ LET next == Head(rpool)
           Mined(sent) ==
               /\ rchain' = sent.c
               /\ rtxs' = Append(rtxs, Tx(next.meta, Signers[1], sent))
               /\ rtasks' = [rtasks EXCEPT ![next.task] =
                      SettleTask("mined", @.ctx,
                                 [status |-> sent.status,
                                  transaction_hash |-> sent.transaction_hash],
                                 NoResult)]
       IN  Mined(send_transaction(rchain, now, next.meta))
    /\ rpool' = Tail(rpool)
    /\ UNCHANGED rreq
    /\ RaceRest

\* settle_payment returns on the receipt and settle answers
RaceReturn(i) ==
    /\ rtasks[i].pc = "mined"
    /\ LET receipt == rtasks[i].receipt
           payment == Unwrap(rtasks[i].ctx).payment
       IN  rtasks' = [rtasks EXCEPT ![i] =
               SettleTask("done", @.ctx, receipt,
                          IF receipt.status
                          THEN Success(payment.from, receipt.transaction_hash)
                          ELSE TransactionReverted(receipt.transaction_hash))]
    /\ UNCHANGED <<rreq, rchain, rpool, rtxs>>
    /\ RaceRest

NextRace ==
    \/ \E i \in Settlers : RacePreflight(i)
    \/ \E i \in Settlers : RaceSubmit(i)
    \/ RaceMine
    \/ \E i \in Settlers : RaceReturn(i)

SpecRace == InitRace /\ [][NextRace]_vars

RaceAuthorization == Unwrap(Unwrap(rreq).payload.payload.authorization)
RacePayTo == Unwrap(rreq).requirements.pay_to
Settled == {i \in Settlers : rtasks[i].result.status = "settled"}

\* C38: settle requests that carry the same ERC-3009 authorization and run
\* concurrently may all pass pre-flight and all submit a transaction, but in every
\* interleaving at most one of them answers Success and the authorized amount reaches
\* pay_to at most once.
C38_ConcurrentSettleOnce ==
    /\ Cardinality(Settled) <= 1
    /\ Cardinality({k \in 1..Len(rtxs) : rtxs[k].status}) <= 1
    /\ rchain.balance[Token][RacePayTo] \in {0, RaceAuthorization.value}
    /\ rchain.balance[Token][RaceAuthorization.from] + rchain.balance[Token][RacePayTo]
           \in {RequiredAmount, MaxAmount + 1}

\* two settlements of one authorization both passed pre-flight and both had their
\* transaction mined: the first answered Success, the second TransactionReverted
C38_Witness ==
    /\ \A i \in Settlers : rtasks[i].pc = "done"
    /\ Len(rtxs) >= 2
    /\ rtxs[1].status /\ ~rtxs[2].status
    /\ \E i, j \in Settlers :
          /\ rtasks[i].result.status = "settled"
          /\ rtasks[j].result.err = "TransactionReverted"
    /\ rchain.balance[Token][RacePayTo] = RaceAuthorization.value

\* the provider's answer to a query rejects the party
QueryRejects(query) ==
    LET q == query_chainalysis(query.response, gconf.provider)
    IN  q.verdict \in {"Err", "Denied", "Unknown"}
\* the lists reject a normalized address
ListsReject(address) ==
    \/ address \in gconf.deny_list
    \/ gconf.allow_list # {} /\ address \notin gconf.allow_list
\* the check of a supplied party fails: its address has no normal form, the lists
\* reject it, or the remote query made for it (the one at `at` in gqueries) does
CheckFails(p, at) ==
    \/ normalize_address(Unwrap(p)) = None
    \/ ListsReject(Unwrap(normalize_address(Unwrap(p))))
    \/ /\ gconf.provider.tag = "chainalysis"
       /\ at \in 1..Len(gqueries)
       /\ QueryRejects(gqueries[at])
PayerFails == IsSome(GPayer) /\ CheckFails(GPayer, 1)
PayeeFails == IsSome(GPayee) /\ CheckFails(GPayee, Len(gqueries))
\* the roles of the parties an audit event lists, in order
Roles(event) == [i \in 1..Len(event.parties) |-> event.parties[i].role]

\* C39: the gate screens the payer before the payee and stops at the first failure.
\* When the payer check fails the payee is never screened (no remote query is made
\* for it) and the audit record lists only the payer party; when the payer passes and
\* the payee fails the record lists both parties, the payer first; the call returns Ok
\* only if every supplied party passed.
C39_PayerBeforePayee ==
    (Answered /\ gconf.enabled) =>
        /\ PayerFails =>
              /\ gres # Passed
              /\ \A i \in 1..Len(gqueries) :
                    IsSome(GPayee) => gqueries[i].address # Canon(Unwrap(GPayee))
              /\ Len(gqueries) <= 1
              /\ Len(gemitted) = 1
              /\ Roles(gemitted[1]) = <<"payer">>
        /\ (IsSome(GPayer) /\ ~PayerFails /\ PayeeFails) =>
              /\ gres # Passed
              /\ Len(gemitted) = 1
              /\ Roles(gemitted[1]) = <<"payer", "payee">>
        /\ gres = Passed => ~PayerFails /\ ~PayeeFails

\* a payer that passed and a payee whose address is no address: the call failed and
\* no audit record lists the two parties
C39_Witness ==
    /\ Answered /\ gconf.enabled
    /\ IsSome(GPayer) /\ ~PayerFails
    /\ IsSome(GPayee) /\ normalize_address(Unwrap(GPayee)) = None
    /\ gres = ComplianceFailed(<<"payee", "has an invalid address format">>)
    /\ gemitted = <<>>

====
